---- MODULE Spec2Model ----
(***************************************************************************)
(* NoteDown: the canvas' Global Action History (InfiniteCanvas), the notes *)
(* store it mutates (useNotesStore) and the local undo routing of the      *)
(* editable regions (CanvasTable cells, CanvasTextBox body).               *)
(*                                                                         *)
(* A React handler reads the values its closure captured at the last       *)
(* render (activePage, undoStack, redoStack, selectedItemId) while         *)
(* functional state updates (setUndoStack(prev => ...)) and the zustand    *)
(* store act on the current values.  The model keeps both: the current     *)
(* values are the variables, the captured ones are the record "rendered",  *)
(* refreshed by the action Render.                                         *)
(***************************************************************************)
EXTENDS Integers, Sequences, FiniteSets, TLC

\* ------------------------------------------------------------------ bounds
MaxIds   == 2     \* item ids that exist: the welcome item and generated ones
MaxX     == 1     \* values a plain item field (x, color, content) ranges over
MaxOps   == 4     \* user operations explored in one run
MaxLag   == 1     \* operations a handler's closure may be behind the state
ProbeLen == 4     \* operations the observer variable probe follows
MaxMoves == 2     \* pointer-move events of one drag, resize or erase stroke

Ids      == 1..MaxIds
Xs       == 0..MaxX
PageIds  == {"welcome", "page2"}
NoPage   == "null"
NoItem   == 0

\* ------------------------------------------------------------------ state
VARIABLES
    pages,            \* store: page id -> canvasItems, for the pages that exist
    activePageId,     \* store: activePageId, NoPage for null
    undoStack,        \* InfiniteCanvas state
    redoStack,        \* InfiniteCanvas state
    selectedItemId,   \* InfiniteCanvas state, NoItem for null
    rendered,         \* what the handlers' closures captured at the last render
    usedIds,          \* item ids generateId has produced (and the welcome item's)
    usedPages,        \* page ids generateId has produced (and the welcome page's)
    lag,              \* operations run since the closures were last current
    ops,              \* user operations run so far
    op,               \* observer: the kind of the last user operation
    probe,            \* observer: a recorded action and the undos/redos after it
    focus,            \* document.activeElement: "none", "cell" or "text"
    cell,             \* CanvasTable: focusedCell, selectionRange, one cell's
                      \* local history and DOM content
    text,             \* CanvasTextBox: the body's local history, its DOM content
    timers,           \* keydown events scheduled with setTimeout(..., 0)
    view,             \* InfiniteCanvas: scale, pinch tracking, tool settings
    gesture           \* the widget's drag/resize in progress and its refs

widgetVars == <<focus, cell, text, timers>>

canvasVars == <<view, gesture>>

vars == <<pages, activePageId, undoStack, redoStack, selectedItemId,
          rendered, usedIds, usedPages, lag, ops, op, probe, focus, cell, text,
          timers, view, gesture>>

\* ------------------------------------------------------------------ items
\* A canvas item is a function from its field names to values.  "tc" stands
\* for an optional field (textColor, maskPaths, ...): absent until set.
NewItem(id, x) == [f \in {"id", "x"} |-> IF f = "id" THEN id ELSE x]

\* { ...a, ...b }
Spread(a, b) ==
    [f \in (DOMAIN a) \cup (DOMAIN b) |-> IF f \in DOMAIN b THEN b[f] ELSE a[f]]

Last(s) == s[Len(s)]
ButLast(s) == SubSeq(s, 1, Len(s) - 1)          \* prev.slice(0, -1)

RECURSIVE Filter(_, _)
Filter(s, id) ==                                 \* items.filter(i => i.id !== id)
    IF s = <<>> THEN <<>>
    ELSE IF Head(s)["id"] = id THEN Filter(Tail(s), id)
         ELSE <<Head(s)>> \o Filter(Tail(s), id)

Has(s, id) == \E k \in 1..Len(s) : s[k]["id"] = id

Find(s, id) ==                                   \* items.find(i => i.id === id)
    s[CHOOSE k \in 1..Len(s) :
         s[k]["id"] = id /\ \A j \in 1..(k - 1) : s[j]["id"] # id]

\* ------------------------------------------------------------------ store
\* addCanvasItem that forgets the page's other items
addCanvasItemReplace(ps, pageId, item) ==
    IF pageId \in DOMAIN ps
    THEN [ps EXCEPT ![pageId] = <<item>>]
    ELSE ps

addCanvasItem(ps, pageId, item) ==
    IF pageId \in DOMAIN ps
    THEN [ps EXCEPT ![pageId] = Append(@, item)]
    ELSE ps

updateCanvasItem(ps, pageId, itemId, updates) ==
    IF pageId \in DOMAIN ps
    THEN [ps EXCEPT ![pageId] =
             [k \in 1..Len(@) |->
                 IF @[k]["id"] = itemId THEN Spread(@[k], updates) ELSE @[k]]]
    ELSE ps

RECURSIVE Keep(_, _)
Keep(s, id) ==
    IF s = <<>> THEN <<>>
    ELSE IF Head(s)["id"] = id THEN <<Head(s)>> \o Keep(Tail(s), id)
         ELSE Keep(Tail(s), id)

\* deleteCanvasItem with the filter's test inverted
deleteCanvasItemInverted(ps, pageId, itemId) ==
    IF pageId \in DOMAIN ps
    THEN [ps EXCEPT ![pageId] = Keep(@, itemId)]
    ELSE ps

deleteCanvasItem(ps, pageId, itemId) ==
    IF pageId \in DOMAIN ps
    THEN [ps EXCEPT ![pageId] = Filter(@, itemId)]
    ELSE ps

\* the id of the page getActivePage() finds, NoPage for null
getActivePage(ps, apid) ==
    IF apid # NoPage /\ apid \in DOMAIN ps THEN apid ELSE NoPage

ItemsOf(ps, pageId) == IF pageId \in DOMAIN ps THEN ps[pageId] ELSE <<>>

\* ------------------------------------------------------ InfiniteCanvas
\* The handlers are functions of the "world" w: the store, the component
\* state and the closure values of the last render.
World == [pages |-> pages, activePageId |-> activePageId,
          undoStack |-> undoStack, redoStack |-> redoStack,
          selectedItemId |-> selectedItemId, rendered |-> rendered]

Add(item)       == [type |-> "ADD", item |-> item]
Delete(item)    == [type |-> "DELETE", item |-> item]
Update(prv, nw) == [type |-> "UPDATE", prevItem |-> prv, newItem |-> nw]

\* pushToUndoStack without the coalescing rule
pushNoCoalesce(w, action) ==
    [w EXCEPT !.undoStack = Append(@, action), !.redoStack = <<>>]

\* pushToUndoStack without setRedoStack([])
pushKeepRedo(w, action) ==
    LET prev == w.undoStack
        coalesce == /\ action.type = "UPDATE"
                    /\ Len(prev) > 0
                    /\ Last(prev).type = "ADD"
                    /\ Last(prev).item["id"] = action.newItem["id"]
    IN [w EXCEPT
          !.undoStack = IF coalesce
                        THEN Append(ButLast(prev), Add(action.newItem))
                        ELSE Append(prev, action)]

\* pushToUndoStack that coalesces an ADD with one UPDATE only: the ADD it
\* writes is marked and not coalesced again
pushCoalesceOnce(w, action) ==
    LET prev == w.undoStack
        coalesce == /\ action.type = "UPDATE"
                    /\ Len(prev) > 0
                    /\ Last(prev).type = "ADD"
                    /\ "coalesced" \notin DOMAIN Last(prev)
                    /\ Last(prev).item["id"] = action.newItem["id"]
    IN [w EXCEPT
          !.undoStack = IF coalesce
                        THEN Append(ButLast(prev),
                                    [type |-> "ADD", item |-> action.newItem,
                                     coalesced |-> TRUE])
                        ELSE Append(prev, action),
          !.redoStack = <<>>]

\* setUndoStack(prev => coalesce or append); setRedoStack([])
pushToUndoStack(w, action) ==
    LET prev == w.undoStack
        coalesce == /\ action.type = "UPDATE"
                    /\ Len(prev) > 0
                    /\ Last(prev).type = "ADD"
                    /\ Last(prev).item["id"] = action.newItem["id"]
    IN [w EXCEPT
          !.undoStack = IF coalesce
                        THEN Append(ButLast(prev), Add(action.newItem))
                        ELSE Append(prev, action),
          !.redoStack = <<>>]

handleUndo(w) ==
    LET activePage == w.rendered.page
        stack == w.rendered.undo
    IN IF activePage = NoPage \/ Len(stack) = 0 THEN w
       ELSE
         LET lastAction == Last(stack)
             popped == [w EXCEPT !.undoStack = ButLast(@)]
         IN CASE lastAction.type = "ADD" ->
                  [popped EXCEPT
                     !.pages = deleteCanvasItem(@, activePage, lastAction.item["id"]),
                     !.redoStack = Append(@, lastAction)]
              [] lastAction.type = "DELETE" ->
                  [popped EXCEPT
                     !.pages = addCanvasItem(@, activePage, lastAction.item),
                     !.redoStack = Append(@, lastAction)]
              [] lastAction.type = "UPDATE" ->
                  LET currentActivePage == getActivePage(w.pages, w.activePageId)
                  IN IF currentActivePage = NoPage THEN popped
                     ELSE [popped EXCEPT
                             !.pages = updateCanvasItem(@, currentActivePage,
                                          lastAction.prevItem["id"], lastAction.prevItem),
                             !.redoStack = Append(@, lastAction)]

handleRedo(w) ==
    LET activePage == w.rendered.page
        stack == w.rendered.redo
    IN IF activePage = NoPage \/ Len(stack) = 0 THEN w
       ELSE
         LET lastAction == Last(stack)
             popped == [w EXCEPT !.redoStack = ButLast(@)]
         IN CASE lastAction.type = "ADD" ->
                  [popped EXCEPT
                     !.pages = addCanvasItem(@, activePage, lastAction.item),
                     !.undoStack = Append(@, lastAction)]
              [] lastAction.type = "DELETE" ->
                  [popped EXCEPT
                     !.pages = deleteCanvasItem(@, activePage, lastAction.item["id"]),
                     !.undoStack = Append(@, lastAction)]
              [] lastAction.type = "UPDATE" ->
                  LET currentActivePage == getActivePage(w.pages, w.activePageId)
                  IN IF currentActivePage = NoPage THEN popped
                     ELSE [popped EXCEPT
                             !.pages = updateCanvasItem(@, currentActivePage,
                                          lastAction.newItem["id"], lastAction.newItem),
                             !.undoStack = Append(@, lastAction)]

\* A keydown event as the window listener sees it.  ctrl stands for
\* ctrlKey || metaKey; target is what the isEditing test distinguishes.
Targets == {"INPUT", "TEXTAREA", "contenteditable", "in-contenteditable", "body"}
Codes   == {"KeyZ", "KeyY", "Delete", "Backspace", "KeyV"}
Events  == [target : Targets, ctrl : BOOLEAN, shift : BOOLEAN, code : Codes]

\* isEditing that tests the tag names only
isEditingTagsOnly(target) ==
    \/ target = "INPUT"
    \/ target = "TEXTAREA"

isEditing(target) ==
    \/ target = "INPUT"                 \* tagName === 'INPUT'
    \/ target = "TEXTAREA"              \* tagName === 'TEXTAREA'
    \/ target = "contenteditable"       \* isContentEditable
    \/ target = "in-contenteditable"    \* closest('[contenteditable]')

isUndoKey(e) == e.ctrl /\ e.code = "KeyZ" /\ ~e.shift
isRedoKey(e) == e.ctrl /\ (e.code = "KeyY" \/ (e.shift /\ e.code = "KeyZ"))
isDeleteKey(e) == e.code \in {"Delete", "Backspace"}

\* the Delete/Backspace branch of the window keydown listener
deleteSelected(w) ==
    LET sel == w.rendered.selected
        activePage == w.rendered.page
    IN IF sel # NoItem /\ activePage # NoPage
       THEN LET w1 == IF Has(w.rendered.items, sel)
                      THEN pushToUndoStack(w, Delete(Find(w.rendered.items, sel)))
                      ELSE w
            IN [w1 EXCEPT !.pages = deleteCanvasItem(@, activePage, sel),
                          !.selectedItemId = NoItem]
       ELSE w

handleKeyDown(w, e) ==
    IF isEditing(e.target) THEN w
    ELSE IF isUndoKey(e) THEN handleUndo(w)
    ELSE IF isRedoKey(e) THEN handleRedo(w)
    ELSE IF isDeleteKey(e) THEN deleteSelected(w)
    ELSE w

\* handleCanvasClick with a creating tool, handleSaveDrawing with the draw tool
createItem(w, id, x) ==
    LET activePage == w.rendered.page
        item == NewItem(id, x)
    IN IF activePage = NoPage THEN w
       ELSE [pushToUndoStack([w EXCEPT !.pages = addCanvasItem(@, activePage, item)],
                             Add(item))
               EXCEPT !.selectedItemId = id]

\* a widget handler that edits one field and records it (handleColorChange,
\* the text colour panel's onApply): prevItem = {...item}; onUpdate(updates);
\* onHistorySave(prevItem, {...item, ...updates})
updateItem(w, item, updates) ==
    pushToUndoStack(
        [w EXCEPT !.pages = updateCanvasItem(@, w.rendered.page, item["id"], updates)],
        Update(item, Spread(item, updates)))

\* onDelete that deletes without recording the DELETE
onDeleteUnrecorded(w, item) ==
    [w EXCEPT !.pages = deleteCanvasItem(@, w.rendered.page, item["id"])]

\* a widget's onDelete
onDelete(w, item) ==
    LET w1 == pushToUndoStack(w, Delete(item))
    IN [w1 EXCEPT !.pages = deleteCanvasItem(@, w.rendered.page, item["id"])]

\* what a render captures
Snapshot(w) ==
    LET ap == getActivePage(w.pages, w.activePageId)
    IN [page |-> ap, items |-> ItemsOf(w.pages, ap),
        undo |-> w.undoStack, redo |-> w.redoStack,
        selected |-> w.selectedItemId]

Fresh == rendered = Snapshot(World)

\* ------------------------------------------------------------ observer
NoAct == [type |-> "NONE"]

ActiveItems(w) == ItemsOf(w.pages, getActivePage(w.pages, w.activePageId))

\* probe follows one recorded action: the operations run since it was
\* recorded (seq), whether each ran with current closures (fresh), the undo
\* depth and the active page's items before it (depth0, before), the items
\* right after it (after) and the action itself (act)
NoProbe == [seq |-> <<>>, fresh |-> TRUE, depth0 |-> 0, before |-> <<>>,
            after |-> <<>>, act |-> NoAct]

StartProbe(kind, act, w) ==
    [seq |-> <<kind>>, fresh |-> Fresh, depth0 |-> Len(undoStack),
     before |-> ActiveItems(World), after |-> ActiveItems(w), act |-> act]

ExtendProbe(kind) ==
    IF probe.seq # <<>> /\ Len(probe.seq) < ProbeLen
    THEN [probe EXCEPT !.seq = Append(@, kind), !.fresh = @ /\ Fresh]
    ELSE NoProbe

\* ------------------------------------------------------------- actions
ApplyWorld(w, kind) ==
    /\ ops < MaxOps
    /\ op' = kind
    /\ lag <= MaxLag
    /\ ops' = ops + 1
    /\ lag' = IF Snapshot(w) = w.rendered THEN 0 ELSE lag + 1
    /\ pages' = w.pages
    /\ activePageId' = w.activePageId
    /\ undoStack' = w.undoStack
    /\ redoStack' = w.redoStack
    /\ selectedItemId' = w.selectedItemId
    /\ rendered' = w.rendered

\* a pointer-move of a gesture in progress: as ApplyWorld, but the moves of
\* one gesture are counted in the gesture (MaxMoves), not as operations
ApplyMove(w, kind) ==
    /\ op' = kind
    /\ lag <= MaxLag
    /\ ops' = ops
    /\ lag' = IF Snapshot(w) = w.rendered THEN 0 ELSE lag + 1
    /\ pages' = w.pages
    /\ activePageId' = w.activePageId
    /\ undoStack' = w.undoStack
    /\ redoStack' = w.redoStack
    /\ selectedItemId' = w.selectedItemId
    /\ rendered' = w.rendered

\* an operation of InfiniteCanvas or the store: the widgets' own state stays
Apply(w, kind) == ApplyWorld(w, kind) /\ UNCHANGED <<widgetVars, canvasVars>>

\* the local state of a table cell nobody has focused yet
\* focusedCell and selectionRange are the table's useState values, null
\* and undefined at first; listener is the item in the closure of the
\* table's window keydown listener, an effect bound anew only when
\* selectionRange or item.cells changes
NoCell == [row |-> -1, col |-> -1]
NoRange == [start |-> NoCell, end |-> NoCell]

NewCell(html) ==
    [present |-> FALSE, history |-> <<>>, index |-> 0, dom |-> html,
     isEditMode |-> FALSE, focusedCell |-> NoCell, selectionRange |-> NoRange,
     isSelecting |-> FALSE, listener |-> [id |-> NoItem]]

NoSnapshot == [id |-> NoItem]

\* the local state of a text box mounted with the given content
NewText(content) ==
    [history |-> <<content>>, index |-> 0, dom |-> content,
     snapshot |-> NoSnapshot]

\* Numbers: a coordinate or a size is kept in halves of a canvas unit (so
\* that x.5 is exact), a scale in thousandths.
Half(n) == 2 * n
Thousandths(n) == 1000 * n

\* the table's own scale (useState(1)) is kept in hundred-thousandths
Fine(n) == 100000 * n

\* useState(1) for scale, lastPinchDistRef = null, activeTool 'select',
\* eraserMode 'object', eraserSize 10, strokeWidth 3
NoDist == -1
\* "seen" is the scale the handlers read: stateRef.current.scale and the
\* scale in the closure of handlePointerMove, both set by the last render;
\* "pointers" is activePointersRef, a map from pointer id to position
NoPointers == <<>>
NoView == [scale |-> Thousandths(1), seen |-> Thousandths(1),
           lastPinchDist |-> NoDist, pointers |-> NoPointers,
           activeTool |-> "select", eraserMode |-> "object", eraserSize |-> 10,
           strokeWidth |-> 3]

\* no drag, resize or stroke in progress; the refs as useRef initialises
\* them.  currentPath is the DrawingOverlay's list of captured points;
\* "stale" notes that a pointer-move of the stroke ran with the closures
\* of a render older than the state
NoGesture == [phase |-> "idle", id |-> NoItem, mouseX |-> 0, mouseY |-> 0,
              itemX |-> 0, itemWidth |-> 0, itemHeight |-> 0,
              snapshot |-> NoSnapshot, bound |-> NoSnapshot, moves |-> 0,
              tableScale |-> Fine(1), pointer |-> [x |-> 0, y |-> 0],
              currentPath |-> <<>>, stale |-> FALSE]

Init ==
    /\ pages = [p \in {"welcome"} |-> <<NewItem(1, 0)>>]
    /\ activePageId = "welcome"
    /\ undoStack = <<>>
    /\ redoStack = <<>>
    /\ selectedItemId = NoItem
    /\ rendered = [page |-> "welcome", items |-> <<NewItem(1, 0)>>,
                   undo |-> <<>>, redo |-> <<>>, selected |-> NoItem]
    /\ usedIds = {1}
    /\ usedPages = {"welcome"}
    /\ lag = 0
    /\ ops = 0
    /\ op = "none"
    /\ probe = NoProbe
    /\ focus = "none"
    /\ cell = NewCell(0)
    /\ text = NewText(0)
    /\ timers = <<>>
    /\ view = NoView
    /\ gesture = NoGesture



\* React re-renders InfiniteCanvas: the closures capture the current values
Render ==
    /\ ~Fresh \/ view.seen # view.scale
    /\ rendered' = Snapshot(World)
    /\ lag' = 0
    /\ view' = [view EXCEPT !.seen = view.scale]
    /\ UNCHANGED <<pages, activePageId, undoStack, redoStack, selectedItemId,
                   usedIds, usedPages, ops, op, probe, widgetVars, gesture>>

CreateItem ==
    \E id \in Ids \ usedIds :
        LET w == createItem(World, id, 0)
        IN /\ rendered.page # NoPage
           /\ Apply(w, "create")
           /\ usedIds' = usedIds \cup {id}
           /\ probe' = StartProbe("create", Add(NewItem(id, 0)), w)
           /\ UNCHANGED usedPages

UpdateItem ==
    \E k \in 1..Len(rendered.items) :
      \E updates \in {[f \in {"x"} |-> v] : v \in Xs} \cup {[f \in {"tc"} |-> 1]} :
        LET item == rendered.items[k]
            w == updateItem(World, item, updates)
        IN /\ Apply(w, "update")
           /\ probe' = IF \/ /\ probe.seq = <<"create">>
                              /\ probe.act.item["id"] = item["id"]
                           \/ /\ probe.seq = <<"create", "update">>
                              /\ probe.act.newItem["id"] = item["id"]
                        THEN [ExtendProbe("update") EXCEPT
                                !.act = Update(item, Spread(item, updates))]
                        ELSE StartProbe("update", Update(item, Spread(item, updates)), w)
           /\ UNCHANGED <<usedIds, usedPages>>

DeleteItem ==
    \E k \in 1..Len(rendered.items) :
        LET item == rendered.items[k]
            w == onDelete(World, item)
        IN /\ Apply(w, "delete")
           /\ probe' = StartProbe("delete", Delete(item), w)
           /\ UNCHANGED <<usedIds, usedPages>>

SelectItem ==
    \E k \in 1..Len(rendered.items) :
        /\ selectedItemId # rendered.items[k]["id"]
        /\ Apply([World EXCEPT !.selectedItemId = rendered.items[k]["id"]], "select")
        /\ probe' = NoProbe
        /\ UNCHANGED <<usedIds, usedPages>>

\* the kind of operation a keydown at the window listener amounts to
KeyKind(e) ==
    IF isUndoKey(e) THEN "undo"
    ELSE IF isRedoKey(e) THEN "redo"
    ELSE IF isDeleteKey(e) THEN "delete"
    ELSE "other"

\* the targets that lie inside an editable region
Editable == {"INPUT", "TEXTAREA", "contenteditable", "in-contenteditable"}

KeyOp(e) ==
    IF e.target \in Editable
    THEN CASE KeyKind(e) = "undo" -> "editing-undo"
           [] KeyKind(e) = "redo" -> "editing-redo"
           [] KeyKind(e) = "delete" -> "editing-delete"
           [] OTHER -> "editing-other"
    ELSE CASE KeyKind(e) = "undo" -> "undo"
           [] KeyKind(e) = "redo" -> "redo"
           [] KeyKind(e) = "delete" -> "key-delete"
           [] OTHER -> "key-other"

KeyProbe(e, w) ==
    CASE KeyOp(e) = "undo" -> ExtendProbe("undo")
      [] KeyOp(e) = "redo" -> ExtendProbe("redo")
      [] KeyOp(e) = "key-delete" ->
            IF rendered.selected # NoItem /\ rendered.page # NoPage
            THEN IF Has(rendered.items, rendered.selected)
                 THEN StartProbe("delete",
                                 Delete(Find(rendered.items, rendered.selected)), w)
                 ELSE NoProbe
            ELSE probe
      [] OTHER -> probe

\* the keydown e reaches the window listener
KeyDownOf(e) ==
    LET w == handleKeyDown(World, e)
    IN /\ Apply(w, KeyOp(e))
       /\ probe' = KeyProbe(e, w)
       /\ UNCHANGED <<usedIds, usedPages>>

KeyDown == \E e \in Events : KeyDownOf(e)

\* the toolbar's onUndo / onRedo
ToolbarUndo ==
    /\ rendered.page # NoPage
    /\ Apply(handleUndo(World), "undo")
    /\ probe' = ExtendProbe("undo")
    /\ UNCHANGED <<usedIds, usedPages>>

ToolbarRedo ==
    /\ rendered.page # NoPage
    /\ Apply(handleRedo(World), "redo")
    /\ probe' = ExtendProbe("redo")
    /\ UNCHANGED <<usedIds, usedPages>>

\* store operations issued by the sidebar
CreatePage ==
    \E p \in PageIds \ usedPages :
        /\ Apply([World EXCEPT
                    !.pages = [q \in DOMAIN pages \cup {p} |->
                                  IF q = p THEN <<>> ELSE pages[q]],
                    !.activePageId = p], "page")
        /\ usedPages' = usedPages \cup {p}
        /\ probe' = NoProbe
        /\ UNCHANGED usedIds

SetActivePage ==
    \E p \in DOMAIN pages :
        /\ p # activePageId
        /\ Apply([World EXCEPT !.activePageId = p], "page")
        /\ probe' = NoProbe
        /\ UNCHANGED <<usedIds, usedPages>>

DeletePage ==
    \E p \in DOMAIN pages :
        /\ Apply([World EXCEPT
                    !.pages = [q \in DOMAIN pages \ {p} |-> pages[q]],
                    !.activePageId = IF activePageId = p THEN NoPage ELSE activePageId],
                 "page")
        /\ probe' = NoProbe
        /\ UNCHANGED <<usedIds, usedPages>>

Next ==
    \/ Render
    \/ CreateItem
    \/ UpdateItem
    \/ DeleteItem
    \/ SelectItem
    \/ KeyDown
    \/ ToolbarUndo
    \/ ToolbarRedo
    \/ CreatePage
    \/ SetActivePage
    \/ DeletePage

Spec == Init /\ [][Next]_vars

\* ------------------------------------------- CanvasTable: one cell
TableId == 1          \* the id of the table item of SpecCell
TextId  == 2          \* the id of the text box item of SpecCell
HistoryCap == 100     \* entries a local history keeps

Min(a, b) == IF a < b THEN a ELSE b

\* a keydown as a widget's React handler sees it: e.key (lower-cased) and
\* e.code; the pairs are those a QWERTY and a QWERTZ keyboard produce
KeyPairs == {<<"z", "KeyZ">>, <<"y", "KeyY">>, <<"z", "KeyY">>,
             <<"y", "KeyZ">>, <<"v", "KeyV">>}

WidgetEvents ==
    {[key |-> p[1], code |-> p[2], ctrl |-> c, shift |-> sh] :
        p \in KeyPairs, c \in BOOLEAN, sh \in BOOLEAN}

isHistoryKey(e) == e.ctrl /\ e.key \in {"z", "y"}
isRedo(e) == e.shift \/ e.key = "y"

\* new KeyboardEvent('keydown', {key, code, ctrlKey: true, metaKey, shiftKey,
\* bubbles: true}) dispatched on document.body
Synthetic(e) == [target |-> "body", ctrl |-> TRUE, shift |-> e.shift, code |-> e.code]

\* the native event as the window listener sees it when it is not stopped
Native(e, target) == [target |-> target, ctrl |-> e.ctrl, shift |-> e.shift, code |-> e.code]

CellHistoryOf(c) == IF c.present THEN c.history ELSE <<>>     \* ... || []

initCellHistory(c, html) ==
    IF ~c.present
    THEN [c EXCEPT !.present = TRUE, !.history = <<html>>, !.index = 0]
    ELSE c

\* pushCellHistory without the limit on the history's length
pushCellHistoryUncapped(c, html) ==
    LET history == CellHistoryOf(c)
        newHistory == Append(SubSeq(history, 1, Min(c.index + 1, Len(history))), html)
    IN [c EXCEPT !.present = TRUE, !.history = newHistory,
                 !.index = Len(newHistory) - 1]

\* pushCellHistory that takes the index before it drops the oldest entry
pushCellHistoryEarlyIndex(c, html) ==
    LET history == CellHistoryOf(c)
        newHistory == Append(SubSeq(history, 1, Min(c.index + 1, Len(history))), html)
        kept == IF Len(newHistory) > HistoryCap THEN Tail(newHistory) ELSE newHistory
    IN [c EXCEPT !.present = TRUE, !.history = kept, !.index = Len(newHistory) - 1]

\* pushCellHistory that appends to the whole history
pushCellHistoryKeepsRedo(c, html) ==
    LET history == CellHistoryOf(c)
        newHistory == Append(history, html)
        kept == IF Len(newHistory) > HistoryCap THEN Tail(newHistory) ELSE newHistory
    IN [c EXCEPT !.present = TRUE, !.history = kept, !.index = Len(kept) - 1]

pushCellHistory(c, html) ==
    LET history == CellHistoryOf(c)
        newHistory == Append(SubSeq(history, 1, Min(c.index + 1, Len(history))), html)
        kept == IF Len(newHistory) > HistoryCap THEN Tail(newHistory) ELSE newHistory
    IN [c EXCEPT !.present = TRUE, !.history = kept, !.index = Len(kept) - 1]

\* updateCell -> onUpdate({cells}) -> updateCanvasItem on the rendered page
updateCell(w, html) ==
    [w EXCEPT !.pages = updateCanvasItem(@, w.rendered.page, TableId,
                                         [f \in {"cell"} |-> html])]

\* whether InfiniteCanvas passes the onHistorySave prop to CanvasTable
TableOnHistorySave == FALSE

\* handlePaste of an HTML table: onUpdate(newItem); onHistorySave?.(item, newItem)
handlePaste(w, item, html) ==
    LET newItem == Spread(item, [f \in {"cell"} |-> html])
        w1 == [w EXCEPT !.pages = updateCanvasItem(@, w.rendered.page,
                                                   item["id"], newItem)]
    IN IF TableOnHistorySave
       THEN pushToUndoStack(w1, Update(item, newItem))
       ELSE w1

\* what the cell's handler decides for a keydown: the cell's new local
\* state, whether it blurs the cell, the events it schedules, whether it
\* stops the propagation, and the content it passes to updateCell
Decision(c, blur, timer, stopped, update) ==
    [cell |-> c, blur |-> blur, timer |-> timer, stopped |-> stopped,
     update |-> update]

\* cellKeyDown without the start-of-history rule: an undo at index 0 is
\* kept local and does nothing
cellKeyDownNoStart(c, e) ==
    IF ~isHistoryKey(e) THEN Decision(c, FALSE, <<>>, FALSE, <<>>)
    ELSE
      LET history == CellHistoryOf(c)
          index == c.index
          hasState == index + 1 <= Len(history)
      IN IF hasState /\ history[index + 1] # c.dom
         THEN Decision(c, TRUE, <<Synthetic(e)>>, FALSE, <<>>)
         ELSE IF isRedo(e) /\ index >= Len(history) - 1
         THEN Decision(c, FALSE, <<>>, FALSE, <<>>)
         ELSE IF isRedo(e)
         THEN LET state == history[index + 2]
              IN Decision([c EXCEPT !.index = index + 1, !.dom = state],
                          FALSE, <<>>, TRUE, <<state>>)
         ELSE IF index > 0
         THEN LET state == history[index]
              IN Decision([c EXCEPT !.index = index - 1, !.dom = state],
                          FALSE, <<>>, TRUE, <<state>>)
         ELSE Decision(c, FALSE, <<>>, TRUE, <<>>)

\* cellKeyDown with the content test after the two boundary tests
cellKeyDownLateMismatch(c, e) ==
    IF ~isHistoryKey(e) THEN Decision(c, FALSE, <<>>, FALSE, <<>>)
    ELSE
      LET history == CellHistoryOf(c)
          index == c.index
          hasState == index + 1 <= Len(history)
      IN IF ~isRedo(e) /\ index = 0
         THEN Decision(c, TRUE, <<Synthetic(e)>>, FALSE, <<>>)
         ELSE IF isRedo(e) /\ index >= Len(history) - 1
         THEN Decision(c, FALSE, <<>>, FALSE, <<>>)
         ELSE IF hasState /\ history[index + 1] # c.dom
         THEN Decision(c, TRUE, <<Synthetic(e)>>, FALSE, <<>>)
         ELSE IF isRedo(e)
         THEN LET state == history[index + 2]
              IN Decision([c EXCEPT !.index = index + 1, !.dom = state],
                          FALSE, <<>>, TRUE, <<state>>)
         ELSE LET state == history[index]
              IN Decision([c EXCEPT !.index = index - 1, !.dom = state],
                          FALSE, <<>>, TRUE, <<state>>)

\* cellKeyDown whose restoration is not flagged undo-originated: the local
\* step pushes the restored content as a new history entry
cellKeyDownPushes(c, e) ==
    IF ~isHistoryKey(e) THEN Decision(c, FALSE, <<>>, FALSE, <<>>)
    ELSE
      LET history == CellHistoryOf(c)
          index == c.index
          hasState == index + 1 <= Len(history)
      IN IF hasState /\ history[index + 1] # c.dom
         THEN Decision(c, TRUE, <<Synthetic(e)>>, FALSE, <<>>)
         ELSE IF ~isRedo(e) /\ index = 0
         THEN Decision(c, TRUE, <<Synthetic(e)>>, FALSE, <<>>)
         ELSE IF isRedo(e) /\ index >= Len(history) - 1
         THEN Decision(c, FALSE, <<>>, FALSE, <<>>)
         ELSE IF isRedo(e)
         THEN LET state == history[index + 2]
              IN Decision([pushCellHistory([c EXCEPT !.index = index + 1], state)
                             EXCEPT !.dom = state],
                          FALSE, <<>>, TRUE, <<state>>)
         ELSE LET state == history[index]
              IN Decision([pushCellHistory([c EXCEPT !.index = index - 1], state)
                             EXCEPT !.dom = state],
                          FALSE, <<>>, TRUE, <<state>>)

\* cellKeyDown that treats a redo at the end of the history as it treats an
\* undo at its start: the cell is blurred and the keystroke re-dispatched
cellKeyDownEndBubbles(c, e) ==
    IF ~isHistoryKey(e) THEN Decision(c, FALSE, <<>>, FALSE, <<>>)
    ELSE
      LET history == CellHistoryOf(c)
          index == c.index
          hasState == index + 1 <= Len(history)
      IN IF hasState /\ history[index + 1] # c.dom
         THEN Decision(c, TRUE, <<Synthetic(e)>>, FALSE, <<>>)
         ELSE IF ~isRedo(e) /\ index = 0
         THEN Decision(c, TRUE, <<Synthetic(e)>>, FALSE, <<>>)
         ELSE IF isRedo(e) /\ index >= Len(history) - 1
         THEN Decision(c, TRUE, <<Synthetic(e)>>, FALSE, <<>>)
         ELSE IF isRedo(e)
         THEN LET state == history[index + 2]
              IN Decision([c EXCEPT !.index = index + 1, !.dom = state],
                          FALSE, <<>>, TRUE, <<state>>)
         ELSE LET state == history[index]
              IN Decision([c EXCEPT !.index = index - 1, !.dom = state],
                          FALSE, <<>>, TRUE, <<state>>)

\* cellKeyDown whose local step also re-dispatches the keystroke to the
\* canvas
cellKeyDownAlsoGlobal(c, e) ==
    IF ~isHistoryKey(e) THEN Decision(c, FALSE, <<>>, FALSE, <<>>)
    ELSE
      LET history == CellHistoryOf(c)
          index == c.index
          hasState == index + 1 <= Len(history)
      IN IF hasState /\ history[index + 1] # c.dom
         THEN Decision(c, TRUE, <<Synthetic(e)>>, FALSE, <<>>)
         ELSE IF ~isRedo(e) /\ index = 0
         THEN Decision(c, TRUE, <<Synthetic(e)>>, FALSE, <<>>)
         ELSE IF isRedo(e) /\ index >= Len(history) - 1
         THEN Decision(c, FALSE, <<>>, FALSE, <<>>)
         ELSE IF isRedo(e)
         THEN LET state == history[index + 2]
              IN Decision([c EXCEPT !.index = index + 1, !.dom = state],
                          FALSE, <<Synthetic(e)>>, TRUE, <<state>>)
         ELSE LET state == history[index]
              IN Decision([c EXCEPT !.index = index - 1, !.dom = state],
                          FALSE, <<Synthetic(e)>>, TRUE, <<state>>)

\* cellKeyDown whose local undo restores the entry below the index and
\* leaves the index where it was
cellKeyDownSticks(c, e) ==
    IF ~isHistoryKey(e) THEN Decision(c, FALSE, <<>>, FALSE, <<>>)
    ELSE
      LET history == CellHistoryOf(c)
          index == c.index
          hasState == index + 1 <= Len(history)
      IN IF hasState /\ history[index + 1] # c.dom
         THEN Decision(c, TRUE, <<Synthetic(e)>>, FALSE, <<>>)
         ELSE IF ~isRedo(e) /\ index = 0
         THEN Decision(c, TRUE, <<Synthetic(e)>>, FALSE, <<>>)
         ELSE IF isRedo(e) /\ index >= Len(history) - 1
         THEN Decision(c, FALSE, <<>>, FALSE, <<>>)
         ELSE IF isRedo(e)
         THEN LET state == history[index + 2]
              IN Decision([c EXCEPT !.index = index + 1, !.dom = state],
                          FALSE, <<>>, TRUE, <<state>>)
         ELSE LET state == history[index]
              IN Decision([c EXCEPT !.dom = state], FALSE, <<>>, TRUE, <<state>>)

\* the undo/redo routing of the cell's handleKeyDown: a content mismatch
\* and an undo at index 0 blur the cell and schedule a synthetic keydown; a
\* redo at the end of the history returns with the event untouched (the
\* browser's own default is not part of the model); otherwise one local
\* step, with the propagation stopped
cellKeyDown(c, e) ==
    IF ~isHistoryKey(e) THEN Decision(c, FALSE, <<>>, FALSE, <<>>)
    ELSE
      LET history == CellHistoryOf(c)
          index == c.index
          hasState == index + 1 <= Len(history)
      IN IF hasState /\ history[index + 1] # c.dom
         THEN Decision(c, TRUE, <<Synthetic(e)>>, FALSE, <<>>)
         ELSE IF ~isRedo(e) /\ index = 0
         THEN Decision(c, TRUE, <<Synthetic(e)>>, FALSE, <<>>)
         ELSE IF isRedo(e) /\ index >= Len(history) - 1
         THEN Decision(c, FALSE, <<>>, FALSE, <<>>)
         ELSE IF isRedo(e)
         THEN LET state == history[index + 2]
              IN Decision([c EXCEPT !.index = index + 1, !.dom = state],
                          FALSE, <<>>, TRUE, <<state>>)
         ELSE LET state == history[index]
              IN Decision([c EXCEPT !.index = index - 1, !.dom = state],
                          FALSE, <<>>, TRUE, <<state>>)

\* ------------------------------------------- CanvasTextBox: the body
\* handleInput of the text box
textInput(t, html) ==
    LET newHistory == Append(SubSeq(t.history, 1, Min(t.index + 1, Len(t.history))), html)
        kept == IF Len(newHistory) > HistoryCap THEN Tail(newHistory) ELSE newHistory
    IN [t EXCEPT !.history = kept, !.index = Len(kept) - 1, !.dom = html]

\* onKeyDown of the body: handleCustomUndo for Ctrl/Cmd+Z and +Y; every
\* key is stopped (stopPropagation, stopImmediatePropagation)
textKeyDown(t, e) ==
    IF ~isHistoryKey(e) THEN [text |-> t, stopped |-> TRUE]
    ELSE IF isRedo(e)
    THEN IF t.index < Len(t.history) - 1
         THEN [text |-> [t EXCEPT !.index = t.index + 1, !.dom = t.history[t.index + 2]],
               stopped |-> TRUE]
         ELSE [text |-> t, stopped |-> TRUE]
    ELSE IF t.index > 0
         THEN [text |-> [t EXCEPT !.index = t.index - 1, !.dom = t.history[t.index]],
               stopped |-> TRUE]
         ELSE [text |-> t, stopped |-> TRUE]

\* handleBlur of the text box; item is the item prop of the last render
textBlur(w, t, item) ==
    LET newContent == t.dom
    IN IF newContent = 0 THEN onDelete(w, item)
       ELSE IF newContent # item["x"]
       THEN LET w1 == [w EXCEPT !.pages = updateCanvasItem(@, w.rendered.page,
                                     item["id"], [f \in {"x"} |-> newContent])]
            IN IF t.snapshot # NoSnapshot
               THEN pushToUndoStack(w1, Update(t.snapshot,
                                       Spread(item, [f \in {"x"} |-> newContent])))
               ELSE w1
       ELSE w

\* ------------------------------------------------- widget actions
TableMounted == Has(rendered.items, TableId)
TextMounted == Has(rendered.items, TextId)

WidgetOp(prefix, e) ==
    IF ~isHistoryKey(e) THEN prefix \o "-other"
    ELSE IF isRedo(e) THEN prefix \o "-redo"
    ELSE prefix \o "-undo"

\* handleFocus of a cell (after handleCellMouseDown when the mouse did it)
CellFocus ==
    \E byMouse \in BOOLEAN :
        /\ focus = "none"
        /\ TableMounted
        /\ ApplyWorld([World EXCEPT !.selectedItemId = TableId], "cell-focus")
        /\ cell' = initCellHistory([cell EXCEPT !.isEditMode = @ \/ byMouse], cell.dom)
        /\ focus' = "cell"
        /\ UNCHANGED <<canvasVars, usedIds, usedPages, probe, text, timers>>

CellBlur ==
    /\ focus = "cell"
    /\ ApplyWorld(World, "cell-blur")
    /\ focus' = "none"
    /\ UNCHANGED <<canvasVars, usedIds, usedPages, probe, cell, text, timers>>

\* the user edits the focused cell: handleInput
CellInput ==
    \E html \in Xs :
        /\ focus = "cell"
        /\ TableMounted
        /\ html # cell.dom
        /\ ApplyWorld(updateCell(World, html), "cell-input")
        /\ cell' = [pushCellHistory(cell, html) EXCEPT !.dom = html]
        /\ UNCHANGED <<canvasVars, usedIds, usedPages, probe, focus, text, timers>>

\* a printable key while the table is not in edit mode overwrites the cell
CellOverwrite ==
    \E html \in Xs \ {0} :
        /\ focus = "cell"
        /\ TableMounted
        /\ ~cell.isEditMode
        /\ ApplyWorld(updateCell(World, html), "cell-overwrite")
        /\ cell' = [cell EXCEPT !.dom = html, !.isEditMode = TRUE]
        /\ UNCHANGED <<canvasVars, usedIds, usedPages, probe, focus, text, timers>>

\* the table item with the pasted content in its cell
Pasted(item, html) == Spread(item, [f \in {"cell"} |-> html])

\* an HTML table is pasted onto the focused cell: handlePaste writes the
\* cell's DOM, empties its local history, passes the whole new item to
\* onUpdate and calls onHistorySave?.(item, newItem)
CellPaste ==
    \E html \in Xs :
        LET item == Find(rendered.items, TableId)
            w == handlePaste(World, item, html)
        IN /\ focus = "cell"
           /\ TableMounted
           /\ ApplyWorld(w, "cell-paste")
           /\ cell' = [cell EXCEPT !.present = TRUE, !.history = <<>>, !.index = 0,
                                   !.dom = html]
           /\ probe' = StartProbe("paste", Update(item, Pasted(item, html)), w)
           /\ UNCHANGED <<canvasVars, usedIds, usedPages, focus, text, timers>>

\* a keydown in the focused cell: the cell's handler, then, unless it
\* stopped the propagation, the window listener
CellKeyDownOf(e) ==
    LET d == cellKeyDown(cell, e)
        w1 == IF d.update # <<>> THEN updateCell(World, d.update[1]) ELSE World
        w2 == IF d.stopped THEN w1
              ELSE handleKeyDown(w1, Native(e, "contenteditable"))
    IN /\ focus = "cell"
       /\ TableMounted
       /\ ApplyWorld(w2, WidgetOp("cell", e))
       /\ cell' = d.cell
       /\ focus' = IF d.blur THEN "none" ELSE focus
       /\ timers' = timers \o d.timer
       /\ UNCHANGED <<canvasVars, usedIds, usedPages, probe, text>>

CellKeyDown == \E e \in WidgetEvents : CellKeyDownOf(e)

\* a scheduled keydown is dispatched on document.body
Timer ==
    /\ timers # <<>>
    /\ LET w == handleKeyDown(World, Head(timers))
       IN /\ ApplyWorld(w, "synthetic")
          /\ probe' = KeyProbe(Head(timers), w)
    /\ timers' = Tail(timers)
    /\ UNCHANGED <<canvasVars, usedIds, usedPages, focus, cell, text>>

TextFocus ==
    /\ focus = "none"
    /\ TextMounted
    /\ ApplyWorld(World, "text-focus")
    /\ text' = [text EXCEPT !.snapshot = Find(rendered.items, TextId)]
    /\ focus' = "text"
    /\ UNCHANGED <<canvasVars, usedIds, usedPages, probe, cell, timers>>

TextInput ==
    \E html \in Xs :
        /\ focus = "text"
        /\ html # text.dom
        /\ ApplyWorld(World, "text-input")
        /\ text' = textInput(text, html)
        /\ UNCHANGED <<canvasVars, usedIds, usedPages, probe, focus, cell, timers>>

TextKeyDownOf(e) ==
    LET d == textKeyDown(text, e)
        w == IF d.stopped THEN World
             ELSE handleKeyDown(World, Native(e, "contenteditable"))
    IN /\ focus = "text"
       /\ ApplyWorld(w, WidgetOp("text", e))
       /\ text' = d.text
       /\ UNCHANGED <<canvasVars, usedIds, usedPages, probe, focus, cell, timers>>

TextKeyDown == \E e \in WidgetEvents : TextKeyDownOf(e)

TextBlur ==
    /\ focus = "text"
    /\ TextMounted
    /\ LET item == Find(rendered.items, TextId)
           w == textBlur(World, text, item)
       IN /\ ApplyWorld(w, "text-blur")
          /\ probe' = IF text.dom = 0 THEN StartProbe("delete", Delete(item), w)
                       ELSE IF text.dom # item["x"] /\ text.snapshot # NoSnapshot
                       THEN StartProbe("update",
                                Update(text.snapshot,
                                       Spread(item, [f \in {"x"} |-> text.dom])), w)
                       ELSE probe
    /\ focus' = "none"
    /\ UNCHANGED <<canvasVars, usedIds, usedPages, cell, text, timers>>

\* a page with a table (one cell) and a text box, both mounted
InitCell ==
    \E c0 \in Xs :
        /\ pages = [p \in {"welcome"} |->
                       <<[f \in {"id", "x", "cell"} |->
                             IF f = "id" THEN TableId ELSE IF f = "x" THEN 0 ELSE c0],
                         NewItem(TextId, 1)>>]
        /\ activePageId = "welcome"
        /\ undoStack = <<>>
        /\ redoStack = <<>>
        /\ selectedItemId = NoItem
        /\ rendered = Snapshot([pages |-> pages, activePageId |-> "welcome",
                                undoStack |-> <<>>, redoStack |-> <<>>,
                                selectedItemId |-> NoItem])
        /\ usedIds = {TableId, TextId}
        /\ usedPages = {"welcome"}
        /\ lag = 0
        /\ ops = 0
        /\ op = "none"
        /\ probe = NoProbe
        /\ focus = "none"
        /\ cell = NewCell(c0)
        /\ text = NewText(1)
        /\ timers = <<>>
        /\ view = NoView
        /\ gesture = NoGesture

NextCell ==
    \/ Render
    \/ UpdateItem
    \/ CellFocus
    \/ CellBlur
    \/ CellInput
    \/ CellOverwrite
    \/ CellPaste
    \/ CellKeyDown
    \/ Timer
    \/ TextFocus
    \/ TextInput
    \/ TextKeyDown
    \/ TextBlur

SpecCell == InitCell /\ [][NextCell]_vars

\* ------------------------------------- local histories near their limit
\* A region that has been typed into for a long time: its history holds n
\* entries, all different from what the user types next, and the index is
\* where earlier local undos left it; the region shows the entry at the
\* index and the store holds the same content.
LongHistory(n) == [k \in 1..n |-> k + MaxX]

InitHistory ==
    \E n \in (HistoryCap - 1)..HistoryCap :
      \E idx \in {0, n - 2, n - 1} :
        \E f \in {"cell", "text"} :
          LET h == LongHistory(n)
              shown == h[idx + 1]
              table == [g \in {"id", "x", "cell"} |->
                           IF g = "id" THEN TableId
                           ELSE IF g = "x" THEN 0
                           ELSE IF f = "cell" THEN shown ELSE 0]
              box == NewItem(TextId, IF f = "text" THEN shown ELSE 1)
          IN /\ pages = [p \in {"welcome"} |-> <<table, box>>]
             /\ activePageId = "welcome"
             /\ undoStack = <<>>
             /\ redoStack = <<>>
             /\ selectedItemId = IF f = "cell" THEN TableId ELSE NoItem
             /\ rendered = Snapshot([pages |-> pages, activePageId |-> "welcome",
                                     undoStack |-> <<>>, redoStack |-> <<>>,
                                     selectedItemId |-> selectedItemId])
             /\ usedIds = {TableId, TextId}
             /\ usedPages = {"welcome"}
             /\ lag = 0
             /\ ops = 0
             /\ op = "none"
             /\ probe = NoProbe
             /\ focus = f
             /\ cell = IF f = "cell"
                       THEN [present |-> TRUE, history |-> h, index |-> idx,
                             dom |-> shown, isEditMode |-> TRUE]
                       ELSE NewCell(0)
             /\ text = IF f = "text"
                       THEN [history |-> h, index |-> idx, dom |-> shown,
                             snapshot |-> box]
                       ELSE NewText(1)
             /\ timers = <<>>
             /\ view = NoView
             /\ gesture = NoGesture

NextHistory ==
    \/ Render
    \/ CellInput
    \/ CellKeyDown
    \/ Timer
    \/ TextInput
    \/ TextKeyDown

SpecHistory == InitHistory /\ [][NextHistory]_vars

\* the regions from a fresh page or with a long history, under every event
\* of the regions
SpecLocal == (InitCell \/ InitHistory) /\ [][NextCell]_vars

\* --------------------------------------------- widgets: drag and resize
\* The widget types InfiniteCanvas places on a page, and the two it passes
\* the onHistorySave prop to.
Kinds == {"sticky", "text", "table", "todo", "image"}
HasHistorySave(kind) == kind \in {"sticky", "text"}

\* the widget types that keep a snapshotRef for the history
HasSnapshotRef(kind) == kind \in {"sticky", "text"}

Max(a, b) == IF a > b THEN a ELSE b
Abs(a) == IF a < 0 THEN -a ELSE a

\* a mouse distance d (whole screen units) divided by the scale, in halves
\* of a canvas unit; the scales of ItemScales make the division exact
DivScale(d, scale) == (Half(d) * Thousandths(1)) \div scale

\* Math.round of a value kept in halves: halves round towards +infinity
Round(h) == Half((h + 1) \div 2)

GItem(id, kind, x, width, height) ==
    [f \in {"id", "type", "x", "width", "height"} |->
        CASE f = "id" -> id
          [] f = "type" -> kind
          [] f = "x" -> x
          [] f = "width" -> width
          [] f = "height" -> height]

\* the floor each widget's handleResize applies: Math.max(min, ...)
MinWidth(kind) ==
    CASE kind = "sticky" -> Half(150)
      [] kind = "text" -> Half(150)
      [] kind = "todo" -> Half(200)
      [] kind = "image" -> Half(100)

MinHeight(kind) ==
    CASE kind = "sticky" -> Half(100)
      [] kind = "text" -> Half(60)
      [] kind = "todo" -> Half(150)

\* handleDragStart; item is the item prop of the current render
handleDragStart(g, item, e) ==
    [g EXCEPT !.phase = "drag", !.id = item["id"], !.moves = 0,
              !.mouseX = e.x, !.mouseY = e.y, !.itemX = item["x"],
              !.itemWidth = 0, !.itemHeight = 0,
              !.snapshot = IF HasSnapshotRef(item["type"]) THEN item ELSE @,
              !.bound = item]

\* handleDrag with the position clamped at 0, as the widgets of the page
\* without pan and zoom have it
handleDragClamped(w, g, e, scale) ==
    LET deltaX == DivScale(e.x - g.mouseX, scale)
        kind == g.bound["type"]
        x == IF kind = "table" THEN Round(g.itemX + deltaX) ELSE g.itemX + deltaX
    IN [w EXCEPT !.pages = updateCanvasItem(@, w.rendered.page, g.id,
                                            [f \in {"x"} |-> Max(0, x)])]

\* handleDrag / the table's handleMouseMove: onUpdate({x: itemX + deltaX});
\* y is computed by the same expression from clientY and is left out
handleDrag(w, g, e, scale) ==
    LET deltaX == DivScale(e.x - g.mouseX, scale)
        kind == g.bound["type"]
        x == IF kind = "table" THEN Round(g.itemX + deltaX) ELSE g.itemX + deltaX
    IN [w EXCEPT !.pages = updateCanvasItem(@, w.rendered.page, g.id,
                                            [f \in {"x"} |-> x])]

\* onHistorySave as the widget of the given type received it
onHistorySave(w, kind, prv, nw) ==
    IF HasHistorySave(kind) THEN pushToUndoStack(w, Update(prv, nw)) ELSE w

\* handleDragEnd.  Sticky note and text box: the listener was bound when
\* isDragging became true, so its item is the item of that render (bound).
\* Table: the listener is re-bound at every render, item is the rendered
\* one and the distance is that of the mouseup event e.
handleDragEnd(w, g, e, scale) ==
    LET kind == g.bound["type"]
    IN CASE kind \in {"sticky", "text"} ->
              IF g.snapshot # NoSnapshot /\ g.snapshot["x"] # g.bound["x"]
              THEN onHistorySave(w, kind, g.snapshot, g.bound)
              ELSE w
         [] kind = "table" ->
              LET deltaX == DivScale(e.x - g.mouseX, scale)
                  item == Find(w.rendered.items, g.id)
              IN IF Abs(deltaX) > Half(1)
                 THEN onHistorySave(w, kind,
                          Spread(item, [f \in {"x"} |-> g.itemX]),
                          Spread(item, [f \in {"x"} |-> Round(g.itemX + deltaX)]))
                 ELSE w
         [] OTHER -> w

\* handleResizeStart
handleResizeStart(g, item, e) ==
    [g EXCEPT !.phase = "resize", !.id = item["id"], !.moves = 0,
              !.mouseX = e.x, !.mouseY = e.y, !.itemX = 0,
              !.itemWidth = IF item["type"] = "table" THEN @ ELSE item["width"],
              !.itemHeight = IF item["type"] = "table" THEN @ ELSE item["height"],
              !.snapshot = IF HasSnapshotRef(item["type"]) THEN item ELSE @,
              !.bound = item]

\* the image's height for a new width: newWidth / (itemWidth / itemHeight)
imageHeight(newWidth, g) == (newWidth * g.itemHeight) \div g.itemWidth

\* whether that quotient is a whole number of halves
ExactHeight(newWidth, g) == (newWidth * g.itemHeight) % g.itemWidth = 0

\* the table's resize: tableScale + ((deltaX + deltaY) / 2) * 0.003, clamped
\* to [0.5, 3]; the deltas are in halves, the result in hundred-thousandths
newTableScale(g, e, scale) ==
    LET deltaX == DivScale(e.x - g.mouseX, scale)
        deltaY == DivScale(e.y - g.mouseY, scale)
    IN Max(Fine(1) \div 2, Min(Fine(3), g.tableScale + (deltaX + deltaY) * 75))

\* handleResize without the Math.max floors
handleResizeUnfloored(w, g, e, scale) ==
    LET deltaX == DivScale(e.x - g.mouseX, scale)
        deltaY == DivScale(e.y - g.mouseY, scale)
        kind == g.bound["type"]
        set(updates) == [w EXCEPT !.pages =
                            updateCanvasItem(@, w.rendered.page, g.id, updates)]
    IN CASE kind = "table" ->
              [w |-> w,
               g |-> [g EXCEPT !.tableScale = newTableScale(g, e, scale),
                               !.mouseX = e.x, !.mouseY = e.y]]
         [] kind = "image" ->
              LET newWidth == g.itemWidth + deltaX
              IN [w |-> set([f \in {"width", "height"} |->
                              IF f = "width" THEN newWidth
                              ELSE imageHeight(newWidth, g)]),
                  g |-> g]
         [] OTHER ->
              [w |-> set([f \in {"width", "height"} |->
                           IF f = "width" THEN g.itemWidth + deltaX
                           ELSE g.itemHeight + deltaY]),
               g |-> g]

\* handleResize / the table's handleMouseMove while resizing: the new
\* world and the new refs and local state of the widget
handleResize(w, g, e, scale) ==
    LET deltaX == DivScale(e.x - g.mouseX, scale)
        deltaY == DivScale(e.y - g.mouseY, scale)
        kind == g.bound["type"]
        set(updates) == [w EXCEPT !.pages =
                            updateCanvasItem(@, w.rendered.page, g.id, updates)]
    IN CASE kind = "table" ->
              [w |-> w,
               g |-> [g EXCEPT !.tableScale = newTableScale(g, e, scale),
                               !.mouseX = e.x, !.mouseY = e.y]]
         [] kind = "image" ->
              LET newWidth == Max(MinWidth(kind), g.itemWidth + deltaX)
              IN [w |-> set([f \in {"width", "height"} |->
                              IF f = "width" THEN newWidth
                              ELSE imageHeight(newWidth, g)]),
                  g |-> g]
         [] OTHER ->
              [w |-> set([f \in {"width", "height"} |->
                           IF f = "width"
                           THEN Max(MinWidth(kind), g.itemWidth + deltaX)
                           ELSE Max(MinHeight(kind), g.itemHeight + deltaY)]),
               g |-> g]

\* handleResizeEnd; the sticky note and the text box compare the snapshot
\* with the item of the render that bound the listener
handleResizeEnd(w, g) ==
    LET kind == g.bound["type"]
    IN IF /\ kind \in {"sticky", "text"}
          /\ g.snapshot # NoSnapshot
          /\ (g.snapshot["width"] # g.bound["width"]
                \/ g.snapshot["height"] # g.bound["height"])
       THEN onHistorySave(w, kind, g.snapshot, g.bound)
       ELSE w

\* ------------------------------------------------ gesture actions
\* One widget on the page, as handleCanvasClick / handleFileUpload created
\* it: text box 200x40, sticky note 200x200, table 400x200, to-do list
\* 280x250, an image at min(natural width, 400) with its aspect ratio.
GestureId == 1

CreatedSizes(kind) ==
    CASE kind = "text" -> {<<Half(200), Half(40)>>}
      [] kind = "sticky" -> {<<Half(200), Half(200)>>}
      [] kind = "table" -> {<<Half(400), Half(200)>>}
      [] kind = "todo" -> {<<Half(280), Half(250)>>}
      [] kind = "image" -> {<<Half(400), Half(200)>>, <<Half(80), Half(40)>>}

\* the zoom scales a gesture is run at: 0.5, 1 and 2
ItemScales == {Thousandths(1) \div 2, Thousandths(1), Thousandths(2)}

\* where the pointer goes down and where it moves to (clientX, clientY)
StartPoint == [x |-> 10, y |-> 10]
Points == {[x |-> 11, y |-> 11], [x |-> 60, y |-> 40],
           [x |-> -490, y |-> -490], [x |-> 60, y |-> -490]}

GestureItem == Find(rendered.items, GestureId)

InitGesture ==
    \E kind \in Kinds :
      \E size \in CreatedSizes(kind) :
        \E scale \in ItemScales :
          /\ pages = [p \in {"welcome"} |->
                         <<GItem(GestureId, kind, Half(100), size[1], size[2])>>]
          /\ activePageId = "welcome"
          /\ undoStack = <<>>
          /\ redoStack = <<>>
          /\ selectedItemId = NoItem
          /\ rendered = Snapshot([pages |-> pages, activePageId |-> "welcome",
                                  undoStack |-> <<>>, redoStack |-> <<>>,
                                  selectedItemId |-> NoItem])
          /\ usedIds = {GestureId}
          /\ usedPages = {"welcome"}
          /\ lag = 0
          /\ ops = 0
          /\ op = "none"
          /\ probe = NoProbe
          /\ focus = "none"
          /\ cell = NewCell(0)
          /\ text = NewText(0)
          /\ timers = <<>>
          /\ view = [NoView EXCEPT !.scale = scale, !.seen = scale]
          /\ gesture = NoGesture

GestureRest == <<widgetVars, view, usedIds, usedPages, probe>>

DragStart ==
    /\ gesture.phase = "idle"
    /\ Fresh
    /\ ApplyWorld(World, "drag-start")
    /\ gesture' = [handleDragStart(gesture, GestureItem, StartPoint)
                     EXCEPT !.pointer = StartPoint]
    /\ UNCHANGED GestureRest

DragMove ==
    \E e \in Points :
        /\ gesture.phase = "drag"
        /\ gesture.moves < MaxMoves
        /\ ApplyMove(handleDrag(World, gesture, e, view.scale), "drag-move")
        /\ gesture' = [gesture EXCEPT !.moves = @ + 1, !.pointer = e]
        /\ UNCHANGED GestureRest

\* mouseup where the pointer is
DragEnd ==
    /\ gesture.phase = "drag"
    /\ ApplyWorld(handleDragEnd(World, gesture, gesture.pointer, view.scale),
                  "drag-end")
    /\ gesture' = [gesture EXCEPT !.phase = "idle"]
    /\ UNCHANGED GestureRest

ResizeStart ==
    /\ gesture.phase = "idle"
    /\ Fresh
    /\ ApplyWorld(World, "resize-start")
    /\ gesture' = [handleResizeStart(gesture, GestureItem, StartPoint)
                     EXCEPT !.pointer = StartPoint]
    /\ UNCHANGED GestureRest

ResizeMove ==
    \E e \in Points :
        LET r == handleResize(World, gesture, e, view.scale)
        IN /\ gesture.phase = "resize"
           /\ gesture.moves < MaxMoves
           /\ gesture.bound["type"] = "image"
              => ExactHeight(Max(MinWidth("image"),
                                 gesture.itemWidth
                                   + DivScale(e.x - gesture.mouseX, view.scale)),
                             gesture)
           /\ ApplyMove(r.w, "resize-move")
           /\ gesture' = [r.g EXCEPT !.moves = @ + 1, !.pointer = e]
           /\ UNCHANGED GestureRest

ResizeEnd ==
    /\ gesture.phase = "resize"
    /\ ApplyWorld(handleResizeEnd(World, gesture), "resize-end")
    /\ gesture' = [gesture EXCEPT !.phase = "idle"]
    /\ UNCHANGED GestureRest

\* the window's blur handler clears the pointer map
handleBlur(v) == [v EXCEPT !.pointers = NoPointers]

\* the window loses focus while a widget may be dragged or resized: the
\* canvas's handleBlur runs; the widgets listen on window for mousemove and
\* mouseup only, so their isDragging and isResizing stay as they are
GestureBlur ==
    /\ ApplyWorld(World, "blur")
    /\ view' = handleBlur(view)
    /\ UNCHANGED <<widgetVars, gesture, usedIds, usedPages, probe>>

NextGesture ==
    \/ Render
    \/ GestureBlur
    \/ DragStart
    \/ DragMove
    \/ DragEnd
    \/ ResizeStart
    \/ ResizeMove
    \/ ResizeEnd

SpecGesture == InitGesture /\ [][NextGesture]_vars

\* ------------------------------------------------- view: zoom by wheel, pinch
\* the sum without the clamp
newScaleUnclamped(scale, delta) == scale + delta

\* Math.min(Math.max(0.1, scale + delta), 5), in thousandths
newScale(scale, delta) ==
    Min(Max(Thousandths(1) \div 10, scale + delta), Thousandths(5))

\* onWheel: with ctrlKey the wheel zooms from stateRef.current.scale by
\* -deltaY * 0.001; without it the wheel pans, which moves the offset only
\* (the offset is read by no computation of the scale and is not kept here)
onWheel(v, e) ==
    IF e.ctrlKey
    THEN [v EXCEPT !.scale = newScale(v.seen, -e.deltaY)]
    ELSE v

\* Map.set keeps the place of a key that is already in the map
SetPointer(pointers, id, pos) ==
    IF \E k \in 1..Len(pointers) : pointers[k].id = id
    THEN [k \in 1..Len(pointers) |->
             IF pointers[k].id = id THEN [id |-> id, pos |-> pos]
             ELSE pointers[k]]
    ELSE Append(pointers, [id |-> id, pos |-> pos])

DeletePointer(pointers, id) ==
    SelectSeq(pointers, LAMBDA p : p.id # id)

\* Math.hypot, for the differences whose hypotenuse is a whole number
Hypot(dx, dy) ==
    CHOOSE r \in 0..(Abs(dx) + Abs(dy)) : r * r = dx * dx + dy * dy

\* handlePointerDown: the pointer is entered in the map
handlePointerDown(v, e) ==
    [v EXCEPT !.pointers = SetPointer(v.pointers, e.pointerId, e.pos)]

\* handlePointerMove: with exactly two pointers down the change of their
\* distance since the last move zooms by 0.005 per pixel, from the scale
\* of the closure; with any other number the pinch reference is dropped
handlePointerMove(v, e) ==
    LET pointers == SetPointer(v.pointers, e.pointerId, e.pos)
        p1 == pointers[1].pos
        p2 == pointers[2].pos
        dist == Hypot(p2.x - p1.x, p2.y - p1.y)
        deltaDate == dist - v.lastPinchDist
    IN IF Len(pointers) = 2
       THEN [v EXCEPT !.pointers = pointers,
                      !.scale = IF v.lastPinchDist # NoDist
                                THEN newScale(v.seen, 5 * deltaDate)
                                ELSE @,
                      !.lastPinchDist = dist]
       ELSE [v EXCEPT !.pointers = pointers, !.lastPinchDist = NoDist]

\* handlePointerUp
handlePointerUp(v, e) ==
    LET pointers == DeletePointer(v.pointers, e.pointerId)
    IN [v EXCEPT !.pointers = pointers,
                 !.lastPinchDist = IF Len(pointers) < 2 THEN NoDist ELSE @]

\* the events: three pointers at two places 200 pixels apart, wheel steps
\* of 1 and of 6 in scale
PointerIds == 1..3
PinchPoints == {[x |-> 0, y |-> 0], [x |-> 200, y |-> 0]}
WheelDeltas == {-6000, -1000, 1000, 6000}

ViewRest == <<widgetVars, gesture, usedIds, usedPages, probe>>

ViewStep(v, kind) ==
    /\ ApplyMove(World, kind)
    /\ view' = v
    /\ UNCHANGED ViewRest

Wheel ==
    \E deltaY \in WheelDeltas, ctrlKey \in BOOLEAN :
        ViewStep(onWheel(view, [deltaY |-> deltaY, ctrlKey |-> ctrlKey]),
                 "wheel")

PointerDown ==
    \E id \in PointerIds, pos \in PinchPoints :
        ViewStep(handlePointerDown(view, [pointerId |-> id, pos |-> pos]),
                 "pointer-down")

PointerMove ==
    \E id \in PointerIds, pos \in PinchPoints :
        ViewStep(handlePointerMove(view, [pointerId |-> id, pos |-> pos]),
                 "pointer-move")

PointerUp ==
    \E id \in PointerIds :
        ViewStep(handlePointerUp(view, [pointerId |-> id]), "pointer-up")

WindowBlur == ViewStep(handleBlur(view), "blur")

NextView ==
    \/ Render
    \/ Wheel
    \/ PointerDown
    \/ PointerMove
    \/ PointerUp
    \/ WindowBlur

SpecView == Init /\ [][NextView]_vars

\* ------------------------------------------- drawing overlay and eraser
\* A path string "M x y L x y ..." is a sequence of commands; coordinates
\* are in halves of a canvas unit.
PathOf(points) ==
    [i \in 1..Len(points) |->
        [c |-> IF i = 1 THEN "M" ELSE "L", x |-> points[i].x, y |-> points[i].y]]

\* pathData.match(/[-+]?\d*\.?\d+/g): the numbers of the string, in order
Nums(pathData) ==
    [i \in 1..(2 * Len(pathData)) |->
        IF i % 2 = 1 THEN pathData[(i + 1) \div 2].x ELSE pathData[i \div 2].y]

\* for (i = 0; i < nums.length; i += 2) if (nums[i + 1] !== undefined) push
PairUp(nums) ==
    [i \in 1..(Len(nums) \div 2) |-> [x |-> nums[2 * i - 1], y |-> nums[2 * i]]]

Sq(a) == a * a

\* distanceToLineSegment(...) < threshold: the boundary left out
distanceWithinStrict(px, py, x1, y1, x2, y2, threshold) ==
    LET dx == x2 - x1
        dy == y2 - y1
        lengthSq == dx * dx + dy * dy
        dot == (px - x1) * dx + (py - y1) * dy
        fromP1 == Sq(px - x1) + Sq(py - y1)
    IN IF lengthSq = 0 THEN fromP1 < Sq(threshold)
       ELSE IF dot <= 0 THEN fromP1 < Sq(threshold)
       ELSE IF dot >= lengthSq THEN Sq(px - x2) + Sq(py - y2) < Sq(threshold)
       ELSE fromP1 * lengthSq - Sq(dot) < Sq(threshold) * lengthSq

\* distanceToLineSegment(px, py, x1, y1, x2, y2) <= threshold, on squares:
\* t = dot / lengthSq clamped to [0, 1]; for 0 < t < 1 the squared distance
\* is fromP1 - dot^2 / lengthSq
distanceWithin(px, py, x1, y1, x2, y2, threshold) ==
    LET dx == x2 - x1
        dy == y2 - y1
        lengthSq == dx * dx + dy * dy
        dot == (px - x1) * dx + (py - y1) * dy
        fromP1 == Sq(px - x1) + Sq(py - y1)
    IN IF lengthSq = 0 THEN fromP1 <= Sq(threshold)
       ELSE IF dot <= 0 THEN fromP1 <= Sq(threshold)
       ELSE IF dot >= lengthSq THEN Sq(px - x2) + Sq(py - y2) <= Sq(threshold)
       ELSE fromP1 * lengthSq - Sq(dot) <= Sq(threshold) * lengthSq

isPointNearSvgPath(pathData, px, py, threshold) ==
    LET nums == Nums(pathData)
        points == PairUp(nums)
    IN /\ Len(nums) >= 2
       /\ \E i \in 1..(Len(points) - 1) :
              distanceWithin(px, py, points[i].x, points[i].y,
                             points[i + 1].x, points[i + 1].y, threshold)

\* item.strokeWidth || 3 and mask.strokeWidth || 10
Or(n, default) == IF n = 0 THEN default ELSE n

MaskPaths(item) == IF "maskPaths" \in DOMAIN item THEN item["maskPaths"] ELSE <<>>

\* the mask loop without the 5-unit buffer around a mask stroke
isMaskedNoBuffer(item, px, py) ==
    \E k \in 1..Len(MaskPaths(item)) :
        LET mask == MaskPaths(item)[k]
        IN isPointNearSvgPath(mask.path, px, py, Or(mask.strokeWidth, 10))

\* the mask loop of handleEraserMove: threshold (mask.strokeWidth || 10) / 2 + 5
isMasked(item, px, py) ==
    \E k \in 1..Len(MaskPaths(item)) :
        LET mask == MaskPaths(item)[k]
        IN isPointNearSvgPath(mask.path, px, py,
                              Or(mask.strokeWidth, 10) + Half(5))

\* screenToCanvas, with the canvas at the window's origin and no pan
screenToCanvas(e, scale) ==
    [x |-> DivScale(e.x, scale), y |-> DivScale(e.y, scale)]

\* the body of the forEach of handleEraserMove over the captured items
RECURSIVE eraseEach(_, _, _, _)
eraseEach(w, items, p, eraserRadius) ==
    IF items = <<>> THEN w
    ELSE
      LET item == Head(items)
          hit == /\ item["type"] = "drawing"
                 /\ isPointNearSvgPath(item["paths"], p.x, p.y,
                        Half(eraserRadius) + Or(item["strokeWidth"], 3))
                 /\ ~isMasked(item, p.x, p.y)
          w1 == IF hit
                THEN [pushToUndoStack(w, Delete(item)) EXCEPT
                        !.pages = deleteCanvasItem(@, w.rendered.page, item["id"])]
                ELSE w
      IN eraseEach(w1, Tail(items), p, eraserRadius)

handleEraserMove(w, v, e) ==
    IF v.eraserMode = "pixel" THEN w
    ELSE IF w.rendered.page = NoPage THEN w
    ELSE eraseEach(w, w.rendered.items, screenToCanvas(e, v.seen), v.eraserSize)

\* the drawing item handleSaveDrawing builds
newDrawing(id, pathData, strokeWidth, bounds) ==
    [f \in {"id", "type", "paths", "strokeWidth", "x", "y", "width", "height"} |->
        CASE f = "id" -> id
          [] f = "type" -> "drawing"
          [] f = "paths" -> pathData
          [] f = "strokeWidth" -> strokeWidth
          [] f = "x" -> bounds.x
          [] f = "y" -> bounds.y
          [] f = "width" -> bounds.width
          [] f = "height" -> bounds.height]

WithMasks(item, masks) == Spread(item, [f \in {"maskPaths"} |-> masks])

\* a pixel eraser that takes every drawing for intersecting
IntersectsAny(bounds, item) == item["type"] = "drawing"

\* the bounding-box test of the pixel eraser
Intersects(bounds, item) ==
    /\ bounds.x < item["x"] + item["width"]
    /\ bounds.x + bounds.width > item["x"]
    /\ bounds.y < item["y"] + item["height"]
    /\ bounds.y + bounds.height > item["y"]

\* the pixel eraser that replaces the item's masks by the new one
RECURSIVE maskEachReplacing(_, _, _, _, _)
maskEachReplacing(w, items, page, bounds, newMaskEntry) ==
    IF items = <<>> THEN w
    ELSE
      LET item == Head(items)
          newItem == WithMasks(item, <<newMaskEntry>>)
          w1 == IF item["type"] = "drawing" /\ Intersects(bounds, item)
                THEN pushToUndoStack(
                       [w EXCEPT !.pages = updateCanvasItem(@, page, item["id"],
                                     [f \in {"maskPaths"} |-> <<newMaskEntry>>])],
                       Update(item, newItem))
                ELSE w
      IN maskEachReplacing(w1, Tail(items), page, bounds, newMaskEntry)

\* the forEach of the pixel eraser over the store's current items:
\* newMasks = [...(item.maskPaths || []), newMaskEntry]
RECURSIVE maskEach(_, _, _, _, _)
maskEach(w, items, page, bounds, newMaskEntry) ==
    IF items = <<>> THEN w
    ELSE
      LET item == Head(items)
          newMasks == Append(MaskPaths(item), newMaskEntry)
          newItem == WithMasks(item, newMasks)
          w1 == IF item["type"] = "drawing" /\ Intersects(bounds, item)
                THEN pushToUndoStack(
                       [w EXCEPT !.pages = updateCanvasItem(@, page, item["id"],
                                     [f \in {"maskPaths"} |-> newMasks])],
                       Update(item, newItem))
                ELSE w
      IN maskEach(w1, Tail(items), page, bounds, newMaskEntry)

\* handleSaveDrawing: with the eraser in pixel mode the stroke becomes a
\* mask of every drawing it intersects; in object mode it is dropped; with
\* the draw tool it becomes a drawing item
handleSaveDrawing(w, v, id, pathData, strokeWidth, bounds) ==
    IF w.rendered.page = NoPage THEN w
    ELSE IF v.activeTool = "eraser"
    THEN IF v.eraserMode = "pixel"
         THEN LET currentActivePage == getActivePage(w.pages, w.activePageId)
              IN IF currentActivePage = NoPage THEN w
                 ELSE maskEach(w, ItemsOf(w.pages, currentActivePage),
                               currentActivePage, bounds,
                               [path |-> pathData,
                                strokeWidth |-> v.eraserSize * 2])
         ELSE w
    ELSE LET item == newDrawing(id, pathData, strokeWidth, bounds)
         IN pushToUndoStack(
              [w EXCEPT !.pages = addCanvasItem(@, w.rendered.page, item)],
              Add(item))

RECURSIVE MinOf(_)
MinOf(s) == IF Len(s) = 1 THEN s[1] ELSE Min(s[1], MinOf(Tail(s)))

RECURSIVE MaxOf(_)
MaxOf(s) == IF Len(s) = 1 THEN s[1] ELSE Max(s[1], MaxOf(Tail(s)))

\* the bounds handleEnd passes on: the points' box, 10 units wider and higher
BoundsOf(points) ==
    LET xs == [i \in 1..Len(points) |-> points[i].x]
        ys == [i \in 1..Len(points) |-> points[i].y]
    IN [x |-> MinOf(xs), y |-> MinOf(ys),
        width |-> MaxOf(xs) - MinOf(xs) + Half(10),
        height |-> MaxOf(ys) - MinOf(ys) + Half(10)]

\* handleEnd that saves a stroke of a single point too
handleEndAnyLength(w, v, currentPath, id, strokeWidth) ==
    LET transformedPath ==
            [i \in 1..Len(currentPath) |-> screenToCanvas(currentPath[i], v.seen)]
    IN handleSaveDrawing(w, v, id, PathOf(transformedPath), strokeWidth,
                         BoundsOf(transformedPath))

\* handleEnd of the overlay: a stroke of more than one point is transformed
\* to canvas coordinates and passed to onSavePath
handleEnd(w, v, currentPath, id, strokeWidth) ==
    LET transformedPath ==
            [i \in 1..Len(currentPath) |-> screenToCanvas(currentPath[i], v.seen)]
    IN IF Len(currentPath) > 1
       THEN handleSaveDrawing(w, v, id, PathOf(transformedPath), strokeWidth,
                              BoundsOf(transformedPath))
       ELSE w

\* ------------------------------------------------------- eraser actions
\* The page: a sticky note and two drawings, A a horizontal stroke of width
\* 5 from (0,0) to (10,0), B a slanted stroke of width 10 from (0,20) to
\* (6,28); A may carry a mask from an earlier pixel erase.
StickyId == 3
StrokeA == <<[x |-> 0, y |-> 0], [x |-> Half(10), y |-> 0]>>
StrokeB == <<[x |-> 0, y |-> Half(20)], [x |-> Half(6), y |-> Half(28)]>>
MaskA == [path |-> PathOf(<<[x |-> 5, y |-> -25], [x |-> 15, y |-> -25]>>),
          strokeWidth |-> 20]

DrawingA(masked) ==
    LET a == newDrawing(1, PathOf(StrokeA), 5, BoundsOf(StrokeA))
    IN IF masked THEN WithMasks(a, <<MaskA>>) ELSE a

DrawingB == newDrawing(2, PathOf(StrokeB), 10, BoundsOf(StrokeB))

\* where the pointer goes down and where it is during an erase stroke
\* (clientX, clientY), at zoom 2
DownPoints == {[x |-> 10, y |-> -25], [x |-> 30, y |-> 30]}
ErasePoints == {[x |-> 10, y |-> -25], [x |-> 10, y |-> -26],
                [x |-> 35, y |-> -20], [x |-> 30, y |-> 30],
                [x |-> 10, y |-> 25]}

\* the drawings made in this session, oldest first: their ADDs are on the
\* undo stack; the others were loaded with the notebook
Drawn == {<<>>, <<1>>, <<1, 2>>}

InitErase ==
    \E masked \in BOOLEAN, drawn \in Drawn, mode \in {"object", "pixel"} :
        LET scale == Thousandths(2)
            items == <<GItem(StickyId, "sticky", Half(100), Half(200), Half(200)),
                       DrawingA(masked), DrawingB>>
            stack == [k \in 1..Len(drawn) |-> Add(Find(items, drawn[k]))]
        IN /\ pages = [p \in {"welcome"} |-> items]
           /\ activePageId = "welcome"
           /\ undoStack = stack
           /\ redoStack = <<>>
           /\ selectedItemId = NoItem
           /\ rendered = Snapshot([pages |-> pages, activePageId |-> "welcome",
                                   undoStack |-> stack, redoStack |-> <<>>,
                                   selectedItemId |-> NoItem])
           /\ usedIds = {1, 2, StickyId}
           /\ usedPages = {"welcome"}
           /\ lag = 0
           /\ ops = 0
           /\ op = "none"
           /\ probe = NoProbe
           /\ focus = "none"
           /\ cell = NewCell(0)
           /\ text = NewText(0)
           /\ timers = <<>>
           /\ view = [NoView EXCEPT !.scale = scale, !.seen = scale,
                                    !.activeTool = "eraser",
                                    !.eraserMode = mode]
           /\ gesture = NoGesture

\* handleStart of the overlay
StrokeStart ==
    \E e \in DownPoints :
        /\ gesture.phase = "idle"
        /\ ApplyWorld(World, "stroke-start")
        /\ gesture' = [gesture EXCEPT !.phase = "stroke", !.currentPath = <<e>>,
                                      !.pointer = e, !.moves = 0]
        /\ UNCHANGED GestureRest

\* handleMove of the overlay: the point is captured and onErase, which is
\* handleEraserMove when the eraser is in object mode, is called
StrokeMove ==
    \E e \in (IF view.activeTool = "draw" THEN DownPoints ELSE ErasePoints) :
        /\ gesture.phase = "stroke"
        /\ gesture.moves < MaxMoves
        /\ ApplyMove(IF view.activeTool = "eraser" /\ view.eraserMode = "object"
                     THEN handleEraserMove(World, view, e)
                     ELSE World,
                     "stroke-move")
        /\ gesture' = [gesture EXCEPT !.currentPath = Append(@, e),
                                      !.pointer = e, !.moves = @ + 1,
                                      !.stale = @ \/ ~Fresh]
        /\ UNCHANGED GestureRest

\* the stroke that is ending makes handleSaveDrawing call generateId
Draws ==
    /\ view.activeTool = "draw"
    /\ Len(gesture.currentPath) > 1
    /\ rendered.page # NoPage

\* handleEnd of the overlay (mouseup, mouseleave, touchend); the overlay's
\* strokeWidth prop is eraserSize * 2 with the eraser, strokeWidth otherwise
StrokeEnd ==
    /\ gesture.phase = "stroke"
    /\ \E id \in (IF Draws THEN Ids \ usedIds ELSE {NoItem}) :
          /\ ApplyWorld(handleEnd(World, view, gesture.currentPath, id,
                                  IF view.activeTool = "eraser"
                                  THEN view.eraserSize * 2
                                  ELSE view.strokeWidth),
                        "stroke-end")
          /\ usedIds' = IF Draws THEN usedIds \cup {id} ELSE usedIds
    /\ gesture' = [gesture EXCEPT !.phase = "idle", !.currentPath = <<>>]
    /\ UNCHANGED <<widgetVars, view, usedPages, probe>>

NextErase ==
    \/ Render
    \/ StrokeStart
    \/ StrokeMove
    \/ StrokeEnd

SpecErase == InitErase /\ [][NextErase]_vars

\* erasing, with the toolbar's undo and redo: the buttons are clicked
\* between strokes
MaskUndo == gesture.phase = "idle" /\ ToolbarUndo
MaskRedo == gesture.phase = "idle" /\ ToolbarRedo

NextMask ==
    \/ NextErase
    \/ MaskUndo
    \/ MaskRedo

SpecMask == InitErase /\ [][NextMask]_vars

\* ---------------------------------------------------------- draw actions
\* two empty pages, the draw tool selected, zoom 1 or 2
InitDraw ==
    \E scale \in {Thousandths(1), Thousandths(2)} :
        /\ pages = [p \in PageIds |-> <<>>]
        /\ activePageId = "welcome"
        /\ undoStack = <<>>
        /\ redoStack = <<>>
        /\ selectedItemId = NoItem
        /\ rendered = [page |-> "welcome", items |-> <<>>,
                       undo |-> <<>>, redo |-> <<>>, selected |-> NoItem]
        /\ usedIds = {}
        /\ usedPages = PageIds
        /\ lag = 0
        /\ ops = 0
        /\ op = "none"
        /\ probe = NoProbe
        /\ focus = "none"
        /\ cell = NewCell(0)
        /\ text = NewText(0)
        /\ timers = <<>>
        /\ view = [NoView EXCEPT !.scale = scale, !.seen = scale,
                                 !.activeTool = "draw"]
        /\ gesture = NoGesture

NextDraw ==
    \/ Render
    \/ StrokeStart
    \/ StrokeMove
    \/ StrokeEnd
    \/ SetActivePage

SpecDraw == InitDraw /\ [][NextDraw]_vars

\* ------------------------------------------------ CanvasTable: the grid
\* A table item has rows, cols, cells (a list of rows of cell contents, 0
\* for the empty string) and, once a cell was styled, cellStyles, a map
\* from the key "r-c" (here <<r, c>>, counted from 0) to a style.
GridId == TableId
Undefined == -1        \* an index argument that was left out; an array hole

GridItem(cells) ==
    [f \in {"id", "type", "rows", "cols", "cells"} |->
        CASE f = "id" -> GridId
          [] f = "type" -> "table"
          [] f = "rows" -> Len(cells)
          [] f = "cols" -> Len(cells[1])
          [] f = "cells" -> cells]

Fields(names, values) == [k \in 1..Len(names) |-> values[k]]

CellStyles(item) ==
    IF "cellStyles" \in DOMAIN item THEN item["cellStyles"] ELSE [k \in {} |-> 0]

Blank(n) == [k \in 1..n |-> 0]                  \* new Array(n).fill('')

\* array.splice(index, 0, x) and array.splice(index, 1), index from 0
InsertAt(s, index, x) ==
    LET k == Min(index, Len(s))
    IN SubSeq(s, 1, k) \o <<x>> \o SubSeq(s, k + 1, Len(s))

RemoveAt(s, index) ==
    IF index < Len(s)
    THEN SubSeq(s, 1, index) \o SubSeq(s, index + 2, Len(s))
    ELSE s

\* onUpdate(updates) and onHistorySave?.(item, {...item, ...updates}), as
\* every handler of the table pairs them
onUpdateSave(w, item, updates) ==
    LET w1 == [w EXCEPT !.pages = updateCanvasItem(@, w.rendered.page,
                                                   item["id"], updates)]
    IN IF TableOnHistorySave
       THEN pushToUndoStack(w1, Update(item, Spread(item, updates)))
       ELSE w1

RowsCells(rows, cells) ==
    [f \in {"rows", "cells"} |-> IF f = "rows" THEN rows ELSE cells]
ColsCells(cols, cells) ==
    [f \in {"cols", "cells"} |-> IF f = "cols" THEN cols ELSE cells]

\* a row button that ignored its index and appended
addRowAppend(w, item, index) ==
    LET newCells == InsertAt(item["cells"], item["rows"], Blank(item["cols"]))
    IN onUpdateSave(w, item, Spread(item, RowsCells(item["rows"] + 1, newCells)))

addRow(w, item, index) ==
    LET insertIndex == IF index # Undefined THEN index ELSE item["rows"]
        newCells == InsertAt(item["cells"], insertIndex, Blank(item["cols"]))
    IN onUpdateSave(w, item, Spread(item, RowsCells(item["rows"] + 1, newCells)))

removeRow(w, item, index) ==
    LET targetIndex == IF index # Undefined THEN index ELSE item["rows"] - 1
        newCells == RemoveAt(item["cells"], targetIndex)
    IN IF item["rows"] > 1
       THEN onUpdateSave(w, item, Spread(item, RowsCells(item["rows"] - 1, newCells)))
       ELSE w

addCol(w, item, index) ==
    LET insertIndex == IF index # Undefined THEN index ELSE item["cols"]
        newCells == [r \in 1..Len(item["cells"]) |->
                        InsertAt(item["cells"][r], insertIndex, 0)]
    IN onUpdateSave(w, item, Spread(item, ColsCells(item["cols"] + 1, newCells)))

removeCol(w, item, index) ==
    LET targetIndex == IF index # Undefined THEN index ELSE item["cols"] - 1
        newCells == [r \in 1..Len(item["cells"]) |->
                        RemoveAt(item["cells"][r], targetIndex)]
    IN IF item["cols"] > 1
       THEN onUpdateSave(w, item, Spread(item, ColsCells(item["cols"] - 1, newCells)))
       ELSE w

\* row[c] = value on a copy of the row; writing past the end leaves holes
AssignAt(row, c, value) ==
    [k \in 1..Max(Len(row), c + 1) |->
        IF k = c + 1 THEN value ELSE IF k <= Len(row) THEN row[k] ELSE Undefined]

\* updateCell: onUpdate({ cells }) with the one cell replaced
updateCellAt(w, item, row, col, value) ==
    LET newCells == [r \in 1..Len(item["cells"]) |->
                        IF r = row + 1
                        THEN [c \in 1..Len(item["cells"][r]) |->
                                 IF c = col + 1 THEN value ELSE item["cells"][r][c]]
                        ELSE item["cells"][r]]
    IN [w EXCEPT !.pages = updateCanvasItem(@, w.rendered.page, item["id"],
                                            [f \in {"cells"} |-> newCells])]

\* handleStyleUpdate: onHistorySave(item, {...item, ...updates}) if the
\* prop is there, then onUpdate(updates)
handleStyleUpdate(w, item, updates) == onUpdateSave(w, item, updates)

\* the colour panel's onApply: the focused cell's style, or the table's
\* colour with every cell style dropped
onApply(w, item, focusedCell, c) ==
    LET old == CellStyles(item)
        key == <<focusedCell.row, focusedCell.col>>
        style == [f \in {"textColor"} |-> c]
    IN IF focusedCell # NoCell
       THEN handleStyleUpdate(w, item,
                [f \in {"cellStyles"} |->
                    [k \in DOMAIN old \cup {key} |->
                        IF k = key
                        THEN (IF k \in DOMAIN old THEN Spread(old[k], style) ELSE style)
                        ELSE old[k]]])
       ELSE handleStyleUpdate(w, item,
                [f \in {"textColor", "cellStyles"} |->
                    IF f = "textColor" THEN c ELSE [k \in {} |-> 0]])

\* focusedCell?.row || 0
OrZero(n) == IF n = Undefined THEN 0 ELSE n

\* the table expansion of handlePaste: trs is the list of the pasted rows,
\* each the list of its cells' contents
RECURSIVE MaxLen(_)
MaxLen(trs) == IF trs = <<>> THEN 0 ELSE Max(Len(Head(trs)), MaxLen(Tail(trs)))

handlePasteGrid(w, item, focusedCell, trs) ==
    LET startRow == OrZero(focusedCell.row)
        startCol == OrZero(focusedCell.col)
        maxRow == Max(item["rows"], startRow + Len(trs))
        maxCol == Max(item["cols"], startCol + MaxLen(trs))
        grown == item["cells"]
                   \o [k \in 1..(maxRow - item["rows"]) |-> Blank(item["cols"])]
        widened == [r \in 1..Len(grown) |->
                       grown[r] \o Blank(maxCol - item["cols"])]
        newCells == [r \in 1..Len(widened) |->
                        [c \in 1..Len(widened[r]) |->
                            IF /\ r - 1 - startRow \in 0..(Len(trs) - 1)
                               /\ c - 1 - startCol
                                    \in 0..(Len(trs[r - startRow]) - 1)
                            THEN trs[r - startRow][c - startCol]
                            ELSE widened[r][c]]]
        newItem == Spread(item, Spread(RowsCells(maxRow, newCells),
                                       [f \in {"cols"} |-> maxCol]))
    IN IF Len(grown) < startRow + Len(trs)
       THEN w                       \* newCells[targetR] is undefined: TypeError
       ELSE onUpdateSave(w, item, newItem)

\* the table's window keydown listener for cut (Ctrl+X) and Delete or
\* Backspace; editing says that document.activeElement is contenteditable
RECURSIVE ClearCells(_, _, _, _)
ClearCells(cells, targets, k, n) ==
    IF k > n THEN cells
    ELSE LET r == targets[k][1]
             c == targets[k][2]
         IN ClearCells(IF r + 1 <= Len(cells) /\ (c + 1 > Len(cells[r + 1])
                                                  \/ cells[r + 1][c + 1] # 0)
                       THEN [cells EXCEPT ![r + 1] = AssignAt(@, c, 0)]
                       ELSE cells,
                       targets, k + 1, n)

RangeCells(range) ==
    LET minR == Min(range.start.row, range.end.row)
        maxR == Max(range.start.row, range.end.row)
        minC == Min(range.start.col, range.end.col)
        maxC == Max(range.start.col, range.end.col)
        width == maxC - minC + 1
    IN [k \in 1..((maxR - minR + 1) * width) |->
           <<minR + ((k - 1) \div width), minC + ((k - 1) % width)>>]

handleRangeKey(w, item, range, editing) ==
    LET isMultiCell == range.start # range.end
        targets == RangeCells(range)
        newCells == ClearCells(item["cells"], targets, 1, Len(targets))
    IN IF range = NoRange THEN [w |-> w, range |-> range]
       ELSE IF editing /\ ~isMultiCell THEN [w |-> w, range |-> range]
       ELSE [w |-> IF newCells # item["cells"]
                   THEN onUpdateSave(w, item, Spread(item, [f \in {"cells"} |-> newCells]))
                   ELSE w,
             range |-> NoRange]

\* ---------------------------------------------------- grid actions
\* The events of one table: the mouse on its cells, typing and pasting in
\* the focused cell, the row and column buttons of its menu, the colour
\* panel and the cut and Delete keys over a selected range.  Each is a
\* discrete event, so React has rendered the state the event before left.
\* The texts' own undo histories (CellFocus and after) are left out here.
GridMounted == Fresh /\ Has(rendered.items, GridId)
Grid == Find(rendered.items, GridId)

\* the cells on screen: TableGrid maps item.cells
Tds ==
    IF Has(rendered.items, GridId)
    THEN UNION {{<<r - 1, c - 1>> : c \in 1..Len(Grid["cells"][r])} :
                   r \in 1..Len(Grid["cells"])}
    ELSE {}

\* the item the keydown effect captures in the render after this event
Rebound(w) == Find(ItemsOf(w.pages, w.rendered.page), GridId)

\* an event of the table; note is what the observer keeps of it
GridNoted(w, kind, note) ==
    /\ ApplyWorld(w, kind)
    /\ probe' = note
    /\ UNCHANGED <<canvasVars, usedIds, usedPages, text, timers>>

GridStep(w, kind) == GridNoted(w, kind, NoProbe)

\* the index a row or column button passed
IndexNote(index) == [NoProbe EXCEPT !.act = [type |-> "INDEX", index |-> index]]

\* a mouse button goes down on a cell: handleCellMouseDown, then the cell
\* takes the focus (handleBlur of the cell that had it, handleFocus)
GridMouseDown ==
    \E rc \in Tds :
        /\ GridMounted
        /\ ~cell.isSelecting
        /\ GridStep([World EXCEPT !.selectedItemId = GridId], "grid-down")
        /\ cell' = [cell EXCEPT !.isEditMode = TRUE, !.isSelecting = TRUE,
                       !.selectionRange = [start |-> [row |-> rc[1], col |-> rc[2]],
                                           end |-> [row |-> rc[1], col |-> rc[2]]],
                       !.focusedCell = [row |-> rc[1], col |-> rc[2]],
                       !.listener = Grid]
        /\ focus' = "cell"

\* handleGlobalMouseMove over a cell while the button is down
GridMouseMove ==
    \E rc \in Tds :
        LET prev == cell.selectionRange
            to == [row |-> rc[1], col |-> rc[2]]
            blurs == prev.start # to /\ focus = "cell"
        IN /\ GridMounted
           /\ cell.isSelecting
           /\ prev # NoRange
           /\ GridStep(World, "grid-move")
           /\ cell' = [cell EXCEPT !.selectionRange = [prev EXCEPT !.end = to],
                          !.focusedCell = IF blurs THEN NoCell ELSE @,
                          !.listener = Grid]
           /\ focus' = IF blurs THEN "none" ELSE focus

\* handleGlobalMouseUp
GridMouseUp ==
    /\ cell.isSelecting
    /\ GridStep(World, "grid-up")
    /\ cell' = [cell EXCEPT !.isSelecting = FALSE]
    /\ UNCHANGED focus

\* the focused cell loses the focus: handleBlur
GridBlur ==
    /\ GridMounted
    /\ focus = "cell"
    /\ ~cell.isSelecting
    /\ GridStep(World, "grid-blur")
    /\ cell' = [cell EXCEPT !.focusedCell = NoCell]
    /\ focus' = "none"

\* typing in the focused cell: handleInput calls updateCell(r, c, html)
GridInput ==
    \E value \in Xs :
        LET at == cell.focusedCell
        IN /\ GridMounted
           /\ focus = "cell"
           /\ value # Grid["cells"][at.row + 1][at.col + 1]
           /\ GridStep(updateCellAt(World, Grid, at.row, at.col, value), "grid-input")
           /\ cell' = [cell EXCEPT !.listener =
                          Rebound(updateCellAt(World, Grid, at.row, at.col, value))]
           /\ UNCHANGED focus

\* the pasted tables: one cell, and a ragged table of two rows
PastedTables == {<< <<1>> >>, << <<1>>, <<1, 1>> >>}

GridPaste ==
    \E trs \in PastedTables :
        /\ GridMounted
        /\ focus = "cell"
        /\ GridStep(handlePasteGrid(World, Grid, cell.focusedCell, trs), "grid-paste")
        /\ cell' = [cell EXCEPT !.listener =
                       Rebound(handlePasteGrid(World, Grid, cell.focusedCell, trs))]
        /\ UNCHANGED focus

\* After a row or a column is taken out, the cell that had the focus may be
\* gone from the screen.  React calls no onBlur for an element it unmounts,
\* so focusedCell keeps its value; where the browser itself reports the
\* loss of focus, handleBlur runs.  Both outcomes are possible.
Unmounts(cells) ==
    /\ focus = "cell"
    /\ \/ cell.focusedCell.row >= Len(cells)
       \/ cell.focusedCell.col >= Len(cells[cell.focusedCell.row + 1])

GridButton(w, kind, index) ==
    LET cells == Find(ItemsOf(w.pages, w.rendered.page), GridId)["cells"]
    IN /\ GridMounted
       /\ ~cell.isSelecting
       /\ GridNoted(w, kind, IndexNote(index))
       /\ IF Unmounts(cells)
          THEN /\ focus' = "none"
               /\ \E blurFired \in BOOLEAN :
                     cell' = [cell EXCEPT !.focusedCell =
                                              IF blurFired THEN NoCell ELSE @,
                                          !.listener = Rebound(w)]
          ELSE /\ cell' = [cell EXCEPT !.listener = Rebound(w)]
               /\ UNCHANGED focus

\* the menu's row buttons: Insert Above, Insert Below and Delete while a
\* cell is focused, Add and Delete otherwise
AddRow ==
    \E index \in (IF cell.focusedCell # NoCell
                  THEN {cell.focusedCell.row, cell.focusedCell.row + 1}
                  ELSE {Undefined}) :
        GridButton(addRow(World, Grid, index), "add-row", index)

RemoveRow ==
    /\ GridMounted
    /\ Grid["rows"] > 1                         \* disabled={item.rows <= 1}
    /\ LET index == IF cell.focusedCell # NoCell
                     THEN cell.focusedCell.row ELSE Undefined
       IN GridButton(removeRow(World, Grid, index), "remove-row", index)

AddCol ==
    \E index \in (IF cell.focusedCell # NoCell
                  THEN {cell.focusedCell.col, cell.focusedCell.col + 1}
                  ELSE {Undefined}) :
        GridButton(addCol(World, Grid, index), "add-col", index)

RemoveCol ==
    /\ GridMounted
    /\ Grid["cols"] > 1                         \* disabled={item.cols <= 1}
    /\ LET index == IF cell.focusedCell # NoCell
                     THEN cell.focusedCell.col ELSE Undefined
       IN GridButton(removeCol(World, Grid, index), "remove-col", index)

\* Apply in the colour panel
GridStyle ==
    /\ GridMounted
    /\ ~cell.isSelecting
    /\ GridStep(onApply(World, Grid, cell.focusedCell, 1), "grid-style")
    /\ UNCHANGED <<cell, focus>>

\* Ctrl+X or Delete: the key reaches both keydown listeners of window, the
\* table's and the canvas's, in the order they were last registered (each
\* is re-registered when its effect's dependencies change, so either may
\* come first); its target is the focused cell, or the body when no cell
\* has the focus
RangeKeyEvent(isCut) ==
    [target |-> IF focus = "cell" THEN "contenteditable" ELSE "body",
     ctrl |-> isCut, shift |-> FALSE,
     code |-> IF isCut THEN "KeyX" ELSE "Delete"]

GridRangeKey ==
    \E isCut \in BOOLEAN, canvasFirst \in BOOLEAN :
        LET e == RangeKeyEvent(isCut)
            w0 == IF canvasFirst THEN handleKeyDown(World, e) ELSE World
            d == handleRangeKey(w0, cell.listener, cell.selectionRange,
                                focus = "cell")
            w1 == IF canvasFirst THEN d.w ELSE handleKeyDown(d.w, e)
        IN /\ GridMounted
           /\ GridStep(w1, IF isCut THEN "range-cut" ELSE "range-delete")
           /\ cell' = [cell EXCEPT !.selectionRange = d.range,
                                   !.listener =
                                       IF Has(ItemsOf(w1.pages, w1.rendered.page), GridId)
                                       THEN Rebound(w1) ELSE @]
           /\ UNCHANGED focus

\* the table handleCanvasClick creates: 3 rows, 3 columns, the first row
\* holding the column titles; and a smaller one of 2 rows and 2 columns
DefaultCells == << <<1, 1, 1>>, <<0, 0, 0>>, <<0, 0, 0>> >>
SmallCells == << <<1, 1>>, <<0, 0>> >>

\* a page with one table, the default one or the small one
InitGrid ==
    \E cells0 \in {DefaultCells, SmallCells} :
    /\ pages = [p \in {"welcome"} |-> <<GridItem(cells0)>>]
    /\ activePageId = "welcome"
    /\ undoStack = <<>>
    /\ redoStack = <<>>
    /\ selectedItemId = NoItem
    /\ rendered = Snapshot([pages |-> pages, activePageId |-> "welcome",
                            undoStack |-> <<>>, redoStack |-> <<>>,
                            selectedItemId |-> NoItem])
    /\ usedIds = {GridId}
    /\ usedPages = {"welcome"}
    /\ lag = 0
    /\ ops = 0
    /\ op = "none"
    /\ probe = NoProbe
    /\ focus = "none"
    /\ cell = [NewCell(0) EXCEPT !.listener = GridItem(cells0)]
    /\ text = NewText(0)
    /\ timers = <<>>
    /\ view = NoView
    /\ gesture = NoGesture

NextGrid ==
    \/ Render
    \/ GridMouseDown
    \/ GridMouseMove
    \/ GridMouseUp
    \/ GridBlur
    \/ GridInput
    \/ GridPaste
    \/ AddRow
    \/ RemoveRow
    \/ AddCol
    \/ RemoveCol
    \/ GridStyle
    \/ GridRangeKey

SpecGrid == InitGrid /\ [][NextGrid]_vars

\* ------------------------------------------------------------ properties
\* the step is a user operation of the given kind
Did(kind) == ops' = ops + 1 /\ op' = kind

\* what the step leaves alone when an operation does nothing
NoEffect == UNCHANGED <<pages, activePageId, undoStack, redoStack, selectedItemId>>

\* C1: recording UPDATE(prev, new) while the top of the undo stack is an ADD
\* of the same item id replaces that ADD by ADD(new) instead of pushing; so
\* after an add and an update of the added item, with nothing in between,
\* the undo stack is one deeper than before the add, and one undo run by the
\* current handlers then removes the item from the page altogether and
\* brings the stack back to its depth before the add.
C1_Coalescing ==
    [][ /\ ( /\ Did("update")
             /\ Len(undoStack) > 0
             /\ Last(undoStack).type = "ADD"
             /\ Last(undoStack).item["id"] = probe'.act.newItem["id"] )
           => undoStack' = Append(ButLast(undoStack), Add(probe'.act.newItem))
        /\ probe'.seq = <<"create", "update">>
           => Len(undoStack') = probe'.depth0 + 1
        /\ (probe'.seq = <<"create", "update", "undo">> /\ probe'.fresh)
           => /\ ~Has(ActiveItems(World)', probe'.act.newItem["id"])
              /\ Len(undoStack') = probe'.depth0
      ]_vars

C1_Witness ==
    /\ probe.seq = <<"create", "update", "undo">>
    /\ probe.fresh
    /\ probe.act.prevItem # probe.act.newItem
    /\ ~Has(ActiveItems(World), probe.act.newItem["id"])
    /\ redoStack = <<Add(probe.act.newItem)>>

\* C2: after every recording of an action (add, delete, update, the
\* coalesced update included) the redo stack is empty, and a redo run by the
\* current handlers while it is empty changes nothing.
C2_PushClearsRedo ==
    [][ /\ ( \/ op' \in {"create", "update", "delete"}
             \/ (op' = "key-delete" /\ probe'.seq = <<"delete">>) )
           => redoStack' = <<>>
        /\ (Did("redo") /\ Fresh /\ redoStack = <<>>) => NoEffect
      ]_vars

\* an add was undone (its ADD went to the redo stack) and then an update
\* was recorded: the redo stack is empty again
C2_Witness ==
    /\ ops = 3
    /\ op = "update"
    /\ usedIds = {1, 2}
    /\ DOMAIN pages = {"welcome"}
    /\ ~Has(pages["welcome"], 2)
    /\ Len(undoStack) = 1
    /\ Last(undoStack).type = "UPDATE"
    /\ redoStack = <<>>

Range(s) == {s[k] : k \in 1..Len(s)}

\* the items of the active page that carry the id
Live(id) == {i \in Range(ActiveItems(World)) : i["id"] = id}

\* C3: with UPDATE(A, B) of an existing item the only entry of the undo
\* stack, an undo makes the live item exactly A (no field that B has and A
\* lacks survives), a second undo changes nothing, and one redo then makes
\* the live item exactly B; every handler runs with current closures.
C3_UpdateUndoRedo ==
    (probe.fresh /\ probe.depth0 = 0 /\ probe.act.type = "UPDATE") =>
        /\ probe.seq = <<"update", "undo">>
           => /\ Live(probe.act.prevItem["id"]) = {probe.act.prevItem}
              /\ undoStack = <<>>
              /\ redoStack = <<probe.act>>
        /\ probe.seq = <<"update", "undo", "undo">>
           => /\ Live(probe.act.prevItem["id"]) = {probe.act.prevItem}
              /\ undoStack = <<>>
              /\ redoStack = <<probe.act>>
        /\ probe.seq = <<"update", "undo", "undo", "redo">>
           => /\ Live(probe.act.newItem["id"]) = {probe.act.newItem}
              /\ undoStack = <<probe.act>>
              /\ redoStack = <<>>

\* C4: adding an item and recording its ADD, then an undo, then a redo,
\* each run with current closures, leaves the active page's items as they
\* were right after the add, the ADD on top of the undo stack and the redo
\* stack empty.
C4_AddUndoRedo ==
    (probe.seq = <<"create", "undo", "redo">> /\ probe.fresh) =>
        /\ ActiveItems(World) = probe.after
        /\ Len(undoStack) = probe.depth0 + 1
        /\ Last(undoStack) = probe.act
        /\ redoStack = <<>>

C4_Witness ==
    /\ probe.seq = <<"create", "undo", "redo">>
    /\ probe.fresh
    /\ op = "redo"
    /\ Len(probe.after) = 2
    /\ probe.act.item \in Range(ActiveItems(World))

\* C5: deleting an item with a recorded DELETE(item) and then an undo
\* re-adds an item equal in every field to the recorded snapshot, so the
\* page's item set is the set before the deletion; a following redo removes
\* the item again; every handler runs with current closures.
C5_DeleteUndoRedo ==
    (probe.fresh /\ probe.act.type = "DELETE") =>
        /\ probe.seq = <<"delete", "undo">>
           => /\ probe.act.item \in Range(ActiveItems(World))
              /\ Range(ActiveItems(World)) = Range(probe.before)
        /\ probe.seq = <<"delete", "undo", "redo">>
           => /\ ~Has(ActiveItems(World), probe.act.item["id"])
              /\ Range(ActiveItems(World)) = Range(probe.after)

C5_Witness ==
    /\ probe.seq = <<"delete", "undo", "redo">>
    /\ probe.fresh
    /\ probe.act.type = "DELETE"
    /\ Len(probe.before) = 2
    /\ Len(ActiveItems(World)) = 1
    /\ undoStack # <<>>
    /\ Last(undoStack) = probe.act

\* C6: an undo on a non-empty undo stack moves exactly its top action onto
\* the redo stack and a redo on a non-empty redo stack moves exactly its top
\* action onto the undo stack, also when no active page can be re-fetched,
\* so neither changes the number of actions the two stacks hold.  The
\* handler holds the current stacks and an active page.
C6_NoActionLost ==
    [][ (rendered.undo = undoStack /\ rendered.redo = redoStack
            /\ rendered.page # NoPage) =>
          /\ (Did("undo") /\ undoStack # <<>>)
             => /\ undoStack' = ButLast(undoStack)
                /\ redoStack' = Append(redoStack, Last(undoStack))
          /\ (Did("redo") /\ redoStack # <<>>)
             => /\ redoStack' = ButLast(redoStack)
                /\ undoStack' = Append(undoStack, Last(redoStack))
      ]_vars

\* C7: a keydown whose target is inside an editable region changes neither
\* the page's items nor the undo and redo stacks nor the selection: it runs
\* no global undo, redo or deletion of the selected item.
C7_EditingKeysIgnored ==
    [][ \A kind \in {"editing-undo", "editing-redo", "editing-delete",
                      "editing-other"} : Did(kind) => NoEffect ]_vars

C7_Witness ==
    /\ op \in {"editing-undo", "editing-delete"}
    /\ Fresh
    /\ undoStack # <<>>
    /\ selectedItemId # NoItem
    /\ Has(ActiveItems(World), selectedItemId)

\* the step schedules exactly one keydown for document.body, a Ctrl/Cmd
\* keystroke, and runs no global operation itself
BubblesOnce ==
    /\ Len(timers') = Len(timers) + 1
    /\ SubSeq(timers', 1, Len(timers)) = timers
    /\ Last(timers').target = "body"
    /\ Last(timers').ctrl
    /\ NoEffect

\* the cell's content differs from the entry at its local history index
CellMismatch ==
    /\ cell.index + 1 <= Len(CellHistoryOf(cell))
    /\ cell.history[cell.index + 1] # cell.dom

\* C8: in a table cell whose local history index is 0 and whose content
\* matches the entry at index 0, Ctrl/Cmd+Z leaves the cell's content, its
\* local index and its history unchanged and dispatches the keystroke to
\* the global handler exactly once (one keydown scheduled for
\* document.body, none handled by the window listener in the step itself).
C8_CellUndoAtStart ==
    [][ ( /\ Did("cell-undo")
          /\ CellHistoryOf(cell) # <<>>
          /\ cell.index = 0
          /\ cell.history[1] = cell.dom )
        => /\ cell'.dom = cell.dom
           /\ cell'.index = cell.index
           /\ cell'.history = cell.history
           /\ BubblesOnce
           /\ ~Last(timers').shift
      ]_vars

C8_Witness ==
    /\ op = "cell-undo"
    /\ cell.present
    /\ cell.index = 0
    /\ cell.history # <<>>
    /\ cell.history[1] = cell.dom
    /\ Len(timers) = 1
    /\ Head(timers).code = "KeyZ"
    /\ focus = "none"
    /\ undoStack # <<>>
    /\ Fresh

\* C9: in a text-box body whose local history index is 0, Ctrl/Cmd+Z
\* leaves the body's content unchanged and is bubbled to the global
\* history as for a table cell: a keydown is scheduled for document.body or
\* the global undo pops the undo stack in the step.
C9_TextUndoAtStart ==
    [][ ( /\ Did("text-undo")
          /\ text.index = 0
          /\ Fresh
          /\ undoStack # <<>> )
        => /\ text'.dom = text.dom
           /\ \/ Len(timers') = Len(timers) + 1
              \/ undoStack' = ButLast(undoStack)
      ]_vars

\* C10: in a table cell whose content differs from the entry at the local
\* history index, an undo or redo keystroke takes no local history step
\* (index, content and history stay) and is re-dispatched once as a keydown
\* scheduled for document.body; this holds at index 0 and at the end of the
\* history too, where the boundary rules would otherwise apply.
C10_CellMismatch ==
    [][ ((Did("cell-undo") \/ Did("cell-redo")) /\ CellMismatch)
        => /\ cell' = cell
           /\ BubblesOnce
      ]_vars

\* a redo at the end of the history of a cell whose content was overwritten
C10_Witness ==
    /\ op = "cell-redo"
    /\ CellMismatch
    /\ cell.index = Len(cell.history) - 1
    /\ Len(timers) = 1
    /\ focus = "none"

\* an undo or redo keystroke the cell neither bubbles nor leaves to the
\* browser: the content matches the entry at the index, and the index is
\* above 0 for an undo, below the last entry for a redo
CellLocalUndo == ~CellMismatch /\ cell.index > 0
CellLocalRedo == ~CellMismatch /\ cell.index < Len(CellHistoryOf(cell)) - 1
TextLocalUndo == text.index > 0
TextLocalRedo == text.index < Len(text.history) - 1

\* C11: when no bubbling condition holds, a local undo moves the region's
\* history index by exactly -1 and a local redo by exactly +1, the region's
\* content becomes the entry stored at the new index, and the local history
\* itself is unchanged (no entry appended); in a table cell and in a
\* text-box body alike.
C11_LocalStep ==
    [][ /\ (Did("cell-undo") /\ CellLocalUndo)
           => /\ cell'.index = cell.index - 1
              /\ cell'.dom = cell.history[cell'.index + 1]
              /\ cell'.history = cell.history
        /\ (Did("cell-redo") /\ CellLocalRedo)
           => /\ cell'.index = cell.index + 1
              /\ cell'.dom = cell.history[cell'.index + 1]
              /\ cell'.history = cell.history
        /\ (Did("text-undo") /\ TextLocalUndo)
           => /\ text'.index = text.index - 1
              /\ text'.dom = text.history[text'.index + 1]
              /\ text'.history = text.history
        /\ (Did("text-redo") /\ TextLocalRedo)
           => /\ text'.index = text.index + 1
              /\ text'.dom = text.history[text'.index + 1]
              /\ text'.history = text.history
      ]_vars

\* a cell was typed into and the typing undone locally: index back at 0,
\* both entries kept, the content that of the first entry, nothing bubbled
C11_Witness ==
    /\ op = "cell-undo"
    /\ focus = "cell"
    /\ timers = <<>>
    /\ cell.index = 0
    /\ Len(cell.history) = 2
    /\ cell.history[1] # cell.history[2]
    /\ cell.dom = cell.history[1]

\* the content the item model stores for the region, as the set of values
\* held by the active page's items with the widget's id
StoredCell == {i["cell"] : i \in Live(TableId)}
StoredText == {i["x"] : i \in Live(TextId)}

\* C12: immediately after a local undo or redo step in an editable region
\* (a table cell or a text-box body) the content the item model stores for
\* that region equals the restored snapshot, the region's content.
C12_ModelFollowsLocalStep ==
    [][ /\ ( \/ (Did("cell-undo") /\ CellLocalUndo)
             \/ (Did("cell-redo") /\ CellLocalRedo) )
           => \A stored \in StoredCell' : stored = cell'.dom
        /\ ( \/ (Did("text-undo") /\ TextLocalUndo)
             \/ (Did("text-redo") /\ TextLocalRedo) )
           => \A stored \in StoredText' : stored = text'.dom
      ]_vars

\* the table cell's half of C12 alone
CellModelFollowsLocalStep ==
    [][ ( \/ (Did("cell-undo") /\ CellLocalUndo)
          \/ (Did("cell-redo") /\ CellLocalRedo) )
        => \A stored \in StoredCell' : stored = cell'.dom
      ]_vars

\* C13: a region's local history never holds more than 100 entries; every
\* content change leaves the index on the entry it pushed, the last one;
\* and a push onto a full history whose index is at its end discards the
\* oldest entry (the others keep their order, the new one comes last).
C13_HistoryCapped ==
    /\ [](Len(CellHistoryOf(cell)) <= HistoryCap /\ Len(text.history) <= HistoryCap)
    /\ [][ /\ Did("cell-input")
              => /\ cell'.index = Len(cell'.history) - 1
                 /\ Last(cell'.history) = cell'.dom
                 /\ ( (Len(CellHistoryOf(cell)) = HistoryCap
                         /\ cell.index = HistoryCap - 1)
                      => cell'.history = Append(Tail(cell.history), cell'.dom) )
           /\ Did("text-input")
              => /\ text'.index = Len(text'.history) - 1
                 /\ Last(text'.history) = text'.dom
                 /\ ( (Len(text.history) = HistoryCap /\ text.index = HistoryCap - 1)
                      => text'.history = Append(Tail(text.history), text'.dom) )
       ]_vars

\* a cell with a full history was typed into twice: still 100 entries, the
\* two oldest gone, the index on the last
C13_Witness ==
    /\ op = "cell-input"
    /\ ops = 2
    /\ Len(cell.history) = HistoryCap
    /\ cell.index = HistoryCap - 1
    /\ Head(cell.history) = 3 + MaxX
    /\ Last(cell.history) = cell.dom
    /\ cell.dom \in Xs

\* C14: pasting an HTML table onto a cell resets the cell's local history to
\* a single entry at index 0 and records one UPDATE(item, pasted item) in
\* the global history; the next Ctrl/Cmd+Z in the cell takes no local step
\* and is bubbled once; and the global undo it triggers, run with current
\* closures, gives the table item back the content it had before the paste.
C14_PasteThenUndo ==
    [][ /\ Did("cell-paste")
           => /\ Len(CellHistoryOf(cell')) = 1
              /\ cell'.index = 0
              /\ undoStack' = Append(undoStack, probe'.act)
              /\ probe'.act.type = "UPDATE"
        /\ (Did("cell-undo") /\ op = "cell-paste")
           => /\ cell' = cell
              /\ BubblesOnce
        /\ (probe'.seq = <<"paste", "undo">> /\ probe'.fresh)
           => Live(TableId)' = {probe'.act.prevItem}
      ]_vars

\* the parts of C14 that concern the cell alone: after a paste the next
\* Ctrl/Cmd+Z in the cell takes no local step and is bubbled once
PasteUndoBubbles ==
    [][ (Did("cell-undo") /\ op = "cell-paste") => (cell' = cell /\ BubblesOnce) ]_vars

\* a paste that changed the cell, the Ctrl/Cmd+Z after it bubbled and
\* handled by the global undo with current closures
PasteUndone ==
    /\ probe.seq = <<"paste", "undo">>
    /\ probe.fresh
    /\ probe.act.prevItem # probe.act.newItem
    /\ op = "synthetic"

\* the step is a pointer-move of the drag (resize) in progress
DragMoved == gesture.phase = "drag" /\ gesture'.moves = gesture.moves + 1
ResizeMoved == gesture.phase = "resize" /\ gesture'.moves = gesture.moves + 1

\* the widget's item in the store
StoredItem == Find(ActiveItems(World), GestureId)

\* the distance between pointer-down and the pointer, divided by the scale
NetMovement == DivScale(gesture.pointer.x - StartPoint.x, view.scale)

\* C15: when a drag of a widget of any type ends with a net movement above
\* the 1-unit threshold, exactly one entry is pushed onto the undo stack:
\* UPDATE(item as it was at pointer-down, item at its final position).
C15_DragRecorded ==
    [][ (Did("drag-end") /\ Abs(NetMovement) > Half(1))
        => undoStack' = Append(undoStack, Update(gesture.bound, StoredItem))
      ]_vars

\* no drag and no resize of any widget ever records anything
NothingRecorded == undoStack = <<>>

\* a sticky note dragged from x = 100 at scale 2 by 50 screen units and
\* released at x = 125
StickyDragged ==
    /\ op = "drag-end"
    /\ gesture.bound["type"] = "sticky"
    /\ view.scale = Thousandths(2)
    /\ gesture.bound["x"] = Half(100)
    /\ gesture.pointer.x = StartPoint.x + 50
    /\ StoredItem["x"] = Half(125)

\* the position a pointer-move of a drag should store: the item's position
\* at pointer-down plus the pointer's distance from pointer-down over the
\* scale
DragTarget ==
    gesture.bound["x"] + DivScale(gesture'.pointer.x - StartPoint.x, view.scale)

\* C16 as stated: during a drag at zoom scale s every pointer-move sets the
\* item's stored position to startItemPos + (currentMouse - startMouse) / s,
\* computed from the gesture's start and not clamped, for every widget type.
C16_DragPosition ==
    [][ DragMoved => StoredItem'["x"] = DragTarget ]_vars

\* C16, amended: every pointer-move of a drag stores the position
\* startItemPos + (currentMouse - startMouse) / s, computed from the
\* gesture's start (not from the previous move) and not clamped at 0; the
\* table stores this value rounded to the nearest integer (Math.round),
\* the other widget types store it as it is.
C16_DragPositionRounded ==
    [][ DragMoved =>
          StoredItem'["x"] = IF gesture.bound["type"] = "table"
                             THEN Round(DragTarget)
                             ELSE DragTarget
      ]_vars

\* the second move of a to-do list's drag at scale 0.5, 500 screen units
\* to the left of pointer-down: from x = 100 to x = -900
C16_Witness ==
    /\ op = "drag-move"
    /\ gesture.moves = 2
    /\ gesture.bound["type"] = "todo"
    /\ gesture.bound["x"] = Half(100)
    /\ gesture.pointer.x = StartPoint.x - 500
    /\ view.scale = Thousandths(1) \div 2
    /\ StoredItem["x"] = -Half(900)

\* the minimum sizes the resize rule names per widget type (an image has
\* a minimum width only)
FloorWidth(kind) == IF kind = "table" THEN Half(200) ELSE MinWidth(kind)
FloorHeight(kind) ==
    CASE kind = "table" -> Half(100)
      [] kind = "image" -> 0
      [] OTHER -> MinHeight(kind)

AtLeastFloor(item) ==
    /\ item["width"] >= FloorWidth(item["type"])
    /\ item["height"] >= FloorHeight(item["type"])

C18_ScaleInRange ==
    /\ Thousandths(1) \div 10 <= view.scale
    /\ view.scale <= Thousandths(5)
    /\ view.scale # 0
    /\ Thousandths(1) \div 10 <= view.seen
    /\ view.seen <= Thousandths(5)

\* a pinch that closed two pointers from 200 pixels apart to the same point
\* asked for 1 - 200 * 0.005 = 0 and left the scale at 0.1
C18_Witness ==
    /\ op = "pointer-move"
    /\ Len(view.pointers) = 2
    /\ view.lastPinchDist = 0
    /\ view.seen = Thousandths(1)
    /\ view.scale = Thousandths(1) \div 10


\* a pointer-move of a stroke
StrokeMoved == gesture.phase = "stroke" /\ gesture'.moves = gesture.moves + 1

\* the point p lies within thr of the segment from a to b: some point
\* a + (k / lenSq)(b - a) of the segment, the foot of the perpendicular among
\* them, is that near
SegmentWithin(p, a, b, thr) ==
    LET dx == b.x - a.x
        dy == b.y - a.y
        lenSq == Sq(dx) + Sq(dy)
    IN IF lenSq = 0 THEN Sq(p.x - a.x) + Sq(p.y - a.y) <= Sq(thr)
       ELSE \E k \in 0..lenSq :
               Sq(lenSq * (p.x - a.x) - k * dx) + Sq(lenSq * (p.y - a.y) - k * dy)
                 <= Sq(thr) * Sq(lenSq)

PathWithin(path, p, thr) ==
    \E i \in 1..(Len(path) - 1) : SegmentWithin(p, path[i], path[i + 1], thr)

\* a drawing with a segment within eraserRadius + strokeWidth/2 of p and no
\* mask stroke within maskStrokeWidth/2 + 5 of p
HitBy(item, p) ==
    /\ item["type"] = "drawing"
    /\ PathWithin(item["paths"], p, Half(view.eraserSize) + item["strokeWidth"])
    /\ \A k \in 1..Len(MaskPaths(item)) :
          ~PathWithin(MaskPaths(item)[k].path, p,
                      MaskPaths(item)[k].strokeWidth + Half(5))

DeleteCount(id) ==
    Cardinality({k \in 1..Len(undoStack) :
                    undoStack[k].type = "DELETE" /\ undoStack[k].item["id"] = id})

ErasePath ==
    [i \in 1..Len(gesture.currentPath) |->
        screenToCanvas(gesture.currentPath[i], view.scale)]
EraseBox == BoundsOf(ErasePath)
EraseMask == [path |-> PathOf(ErasePath), strokeWidth |-> 2 * view.eraserSize]

\* the two boxes have a point in common that is inside both
Overlap(box, item) ==
    ~ \/ box.x >= item["x"] + item["width"]
      \/ item["x"] >= box.x + box.width
      \/ box.y >= item["y"] + item["height"]
      \/ item["y"] >= box.y + box.height

\* the drawings the completing stroke affects, in page order
Affected ==
    SelectSeq(ActiveItems(World),
              LAMBDA it : it["type"] = "drawing" /\ Overlap(EraseBox, it))

Masked(item) == WithMasks(item, Append(MaskPaths(item), EraseMask))
MaskUpdates == [k \in 1..Len(Affected) |-> Update(Affected[k], Masked(Affected[k]))]

\* a pixel-erase stroke of at least two points completes
PixelEraseEnds ==
    /\ Did("stroke-end")
    /\ view.activeTool = "eraser"
    /\ view.eraserMode = "pixel"
    /\ Len(gesture.currentPath) > 1

\* C20 -- when a pixel-erase stroke completes, the undo stack gains exactly
\* one UPDATE per drawing whose bounding box intersects the stroke's, each
\* with newItem.maskPaths = prevItem.maskPaths plus the new mask entry.
C20_PixelErase ==
    [][ PixelEraseEnds => undoStack' = undoStack \o MaskUpdates ]_vars

\* C20, amended -- as above, except that when the top of the undo stack is
\* the ADD of the first affected drawing, that ADD is replaced by the ADD of
\* the drawing with the mask appended and the stack gains one entry less;
\* every affected drawing is stored with the mask appended, whatever was
\* recorded.
C20_PixelEraseCoalesced ==
    [][ PixelEraseEnds
        => /\ undoStack' =
                IF /\ Len(Affected) > 0
                   /\ Len(undoStack) > 0
                   /\ Last(undoStack).type = "ADD"
                   /\ Last(undoStack).item["id"] = Affected[1]["id"]
                THEN ButLast(undoStack) \o <<Add(Masked(Affected[1]))>>
                       \o Tail(MaskUpdates)
                ELSE undoStack \o MaskUpdates
           /\ \A k \in 1..Len(Affected) :
                 Find(ItemsOf(pages', activePageId'), Affected[k]["id"])
                   = Masked(Affected[k])
      ]_vars

\* a stroke over both drawings, A already carrying a mask and nothing on
\* the undo stack: two UPDATEs, A's with its old mask first and the new one
\* second, B's with the new one alone
C20_Witness ==
    /\ op = "stroke-end"
    /\ view.eraserMode = "pixel"
    /\ Len(undoStack) = 2
    /\ undoStack[1].type = "UPDATE"
    /\ undoStack[1].prevItem = DrawingA(TRUE)
    /\ Len(undoStack[1].newItem["maskPaths"]) = 2
    /\ undoStack[1].newItem["maskPaths"][1] = MaskA
    /\ undoStack[2].type = "UPDATE"
    /\ undoStack[2].prevItem = DrawingB
    /\ undoStack[2].newItem["maskPaths"] = <<undoStack[1].newItem["maskPaths"][2]>>
    /\ Find(ActiveItems(World), 2) = undoStack[2].newItem

\* the active page's items after the step
ActiveItemsAfter == ItemsOf(pages', getActivePage(pages', activePageId'))

\* C21 -- with the draw tool, ending a stroke of at least two captured
\* points (handled by the handler of the current render) appends exactly one
\* drawing item to the active page and pushes exactly one ADD for it; a
\* stroke of fewer than two points changes neither the pages nor the
\* history; either way the pending point list is empty afterwards.
C21_StrokeSaved ==
    [][ (Did("stroke-end") /\ view.activeTool = "draw" /\ Fresh
           /\ activePageId # NoPage)
        => /\ gesture'.currentPath = <<>>
           /\ IF Len(gesture.currentPath) >= 2
              THEN /\ Len(ActiveItemsAfter) = Len(ActiveItems(World)) + 1
                   /\ ButLast(ActiveItemsAfter) = ActiveItems(World)
                   /\ Last(ActiveItemsAfter)["type"] = "drawing"
                   /\ ~Has(ActiveItems(World), Last(ActiveItemsAfter)["id"])
                   /\ \A p \in DOMAIN pages \ {activePageId} : pages'[p] = pages[p]
                   /\ undoStack' = Append(undoStack, Add(Last(ActiveItemsAfter)))
              ELSE UNCHANGED <<pages, undoStack, redoStack>>
      ]_vars

\* a stroke of two points has ended at zoom 2: the page holds one drawing
\* from (5, -12.5) to (15, 15) and its ADD is the only history entry
C21_Witness ==
    /\ op = "stroke-end"
    /\ view.activeTool = "draw"
    /\ gesture.currentPath = <<>>
    /\ Len(ActiveItems(World)) = 1
    /\ ActiveItems(World)[1]["type"] = "drawing"
    /\ ActiveItems(World)[1]["paths"]
         = PathOf(<<[x |-> 10, y |-> -25], [x |-> 30, y |-> 30]>>)
    /\ undoStack = <<Add(ActiveItems(World)[1])>>

\* ------------------------------------------------ the shape of a table
AllItems == UNION {{pages[p][k] : k \in 1..Len(pages[p])} : p \in DOMAIN pages}
Tables == {item \in AllItems : "cells" \in DOMAIN item}

WellShaped(item) ==
    /\ item["rows"] = Len(item["cells"])
    /\ \A r \in 1..Len(item["cells"]) : Len(item["cells"][r]) = item["cols"]
    /\ item["rows"] >= 1
    /\ item["cols"] >= 1

\* C22: for every table item, after any sequence of addRow, removeRow,
\* addCol, removeCol, table paste and cell edits, rows is the number of
\* rows of cells, cols is the length of every row of cells, and both are
\* at least 1.
C22_TableShape == \A item \in Tables : WellShaped(item)

\* C23: for every table item, every key "r-c" of cellStyles names a cell of
\* the table (0 <= r < rows, 0 <= c < cols), after style updates and after
\* rows and columns are inserted and removed.
C23_StyleKeysInRange ==
    \A item \in Tables :
        \A key \in DOMAIN CellStyles(item) :
            /\ key[1] \in 0..(item["rows"] - 1)
            /\ key[2] \in 0..(item["cols"] - 1)

\* ------------------------------------------- cut and Delete over a range
GridThere == Has(ActiveItems(World), GridId)
GridCells == Find(ActiveItems(World), GridId)["cells"]

\* a cut or Delete key that the table's listener acts on
RangeKeyActs ==
    /\ Did("range-cut") \/ Did("range-delete")
    /\ cell.selectionRange # NoRange
    /\ ~(focus = "cell" /\ cell.selectionRange.start = cell.selectionRange.end)

InRange(range, r, c) ==
    /\ r >= Min(range.start.row, range.end.row)
    /\ r <= Max(range.start.row, range.end.row)
    /\ c >= Min(range.start.col, range.end.col)
    /\ c <= Max(range.start.col, range.end.col)

\* the cells inside the range become empty, the others keep their content
RangeEmptied ==
    /\ GridThere'
    /\ Len(GridCells') = Len(GridCells)
    /\ \A r \in 1..Len(GridCells) :
          /\ Len(GridCells'[r]) = Len(GridCells[r])
          /\ \A c \in 1..Len(GridCells[r]) :
                GridCells'[r][c] = IF InRange(cell.selectionRange, r - 1, c - 1)
                                   THEN 0 ELSE GridCells[r][c]

OneUpdateIfChanged ==
    IF GridThere' /\ GridCells' # GridCells
    THEN /\ Len(undoStack') = Len(undoStack) + 1
         /\ Last(undoStack').type = "UPDATE"
    ELSE undoStack' = undoStack

\* C26: a cut or Delete over a selected rectangular range empties every
\* cell inside the range, leaves the cells outside unchanged, records
\* exactly one UPDATE when at least one cell changed, and clears the
\* selection range.
C26_RangeCut ==
    [][RangeKeyActs =>
          /\ RangeEmptied
          /\ OneUpdateIfChanged
          /\ cell'.selectionRange = NoRange]_vars

\* ------------------------------------------------- items and their pages
\* Two pages, an item just created on the first one (its ADD is on the
\* undo stack).  The user creates and deletes items, undoes, redoes and
\* switches the active page; every event runs the handlers of the
\* current render.
InitPages ==
    /\ pages = [p \in PageIds |-> IF p = "welcome" THEN <<NewItem(1, 0)>> ELSE <<>>]
    /\ activePageId = "welcome"
    /\ undoStack = <<Add(NewItem(1, 0))>>
    /\ redoStack = <<>>
    /\ selectedItemId = 1
    /\ rendered = Snapshot([pages |-> pages, activePageId |-> "welcome",
                            undoStack |-> undoStack, redoStack |-> <<>>,
                            selectedItemId |-> 1])
    /\ usedIds = {1}
    /\ usedPages = PageIds
    /\ lag = 0
    /\ ops = 0
    /\ op = "none"
    /\ probe = NoProbe
    /\ focus = "none"
    /\ cell = NewCell(0)
    /\ text = NewText(0)
    /\ timers = <<>>
    /\ view = NoView
    /\ gesture = NoGesture

PagesCreate == Fresh /\ CreateItem
PagesDelete == Fresh /\ DeleteItem
PagesUndo   == Fresh /\ ToolbarUndo
PagesRedo   == Fresh /\ ToolbarRedo
PagesSwitch == Fresh /\ SetActivePage

NextPages ==
    \/ Render
    \/ PagesCreate
    \/ PagesDelete
    \/ PagesUndo
    \/ PagesRedo
    \/ PagesSwitch

SpecPages == InitPages /\ [][NextPages]_vars

\* C24: within each page's canvasItems no two items have the same id, in
\* every state reached by creating and deleting items, undo, redo and
\* switches of the active page.
C24_UniqueIds ==
    \A p \in DOMAIN pages :
        \A j, k \in 1..Len(pages[p]) :
            pages[p][j]["id"] = pages[p][k]["id"] => j = k

\* C25: no item is in the canvasItems of two different pages, also after
\* an undo or a redo that runs once another page has become active than
\* the one the action was recorded on.
C25_OnePagePerItem ==
    \A p, q \in DOMAIN pages :
        p # q => \A j \in 1..Len(pages[p]) : ~Has(pages[q], pages[p][j]["id"])

\* C27: every undo and redo, of an ADD, a DELETE or an UPDATE, applies its
\* store mutation to the page the store reports as active at that moment,
\* never to a page captured before an intervening state change: the items
\* of every other page stay as they are.
C27_AppliedToActivePage ==
    [][Did("undo") \/ Did("redo") =>
          \A p \in DOMAIN pages :
              p # getActivePage(pages, activePageId) => pages'[p] = pages[p]]_vars

\* ------------------------------------------- an ADD and two UPDATEs
\* C28 as stated: only one UPDATE directly after an ADD is coalesced; after
\* an add and two updates of the added item the second UPDATE is on the
\* undo stack beside the ADD (two entries more than before the add), and
\* two undos are needed to remove the item.
C28_SecondUpdatePushed ==
    [][probe'.seq = <<"create", "update", "update">>
          => Len(undoStack') = probe'.depth0 + 2]_vars

\* C28, amended: every UPDATE recorded while the top of the undo stack is
\* an ADD of the same item id is coalesced, not only the first; after an
\* add and two updates of the added item the stack is one deeper than
\* before the add, its top is the ADD carrying the item of the second
\* update, and one undo run by the current handlers removes the item.
C28_EveryUpdateCoalesced ==
    [][ /\ probe'.seq = <<"create", "update", "update">>
           => /\ Len(undoStack') = probe'.depth0 + 1
              /\ Last(undoStack') = Add(probe'.act.newItem)
        /\ (probe'.seq = <<"create", "update", "update", "undo">> /\ probe'.fresh)
           => /\ ~Has(ActiveItems(World)', probe'.act.newItem["id"])
              /\ Len(undoStack') = probe'.depth0
      ]_vars

C28_Witness ==
    /\ probe.seq = <<"create", "update", "update", "undo">>
    /\ probe.fresh
    /\ probe.act.prevItem # probe.act.newItem
    /\ probe.act.prevItem # NewItem(probe.act.newItem["id"], 0)
    /\ ~Has(ActiveItems(World), probe.act.newItem["id"])
    /\ Len(undoStack) = probe.depth0

\* C29: a drag that ends with a net movement of at most 1 unit (a press
\* and release without movement included) records no action in the Global
\* Action History; a drag that ends with a net movement above 1 unit
\* records one.
C29_DragThreshold ==
    [][Did("drag-end") =>
          IF Abs(NetMovement) > Half(1)
          THEN Len(undoStack') = Len(undoStack) + 1
          ELSE undoStack' = undoStack]_vars

\* the first half of C29 alone
SmallDragSilent ==
    [][(Did("drag-end") /\ Abs(NetMovement) <= Half(1)) => undoStack' = undoStack]_vars

\* ------------------------------------------ a redo at the end of a cell
\* the cell's local history index is at the last entry and the content is
\* that entry
CellAtEnd ==
    /\ CellHistoryOf(cell) # <<>>
    /\ cell.index = Len(CellHistoryOf(cell)) - 1
    /\ CellHistoryOf(cell)[cell.index + 1] = cell.dom

RedoKeys == {e \in WidgetEvents : isHistoryKey(e) /\ isRedo(e)}

\* C30: in a table cell whose local history index is at the last entry and
\* whose content matches it, a redo keystroke changes neither the cell's
\* content nor its local index, is not suppressed (the cell stays focused
\* and the propagation is not stopped) and is not re-dispatched as a
\* synthetic event; nothing else changes either.
C30_RedoAtEnd ==
    [][ (Did("cell-redo") /\ CellAtEnd)
        => /\ cell' = cell
           /\ focus' = focus
           /\ timers' = timers
           /\ NoEffect
           /\ \A e \in RedoKeys : ~cellKeyDown(cell, e).stopped
      ]_vars

\* a redo keystroke in a focused cell whose history has one entry
C30_Witness ==
    /\ op = "cell-redo"
    /\ focus = "cell"
    /\ timers = <<>>
    /\ cell.present
    /\ Len(cell.history) = 1
    /\ cell.index = 0
    /\ cell.history[1] = cell.dom

\* ------------------------------------------------ erasing over a mask
\* the drawing has a mask stroke within maskStrokeWidth/2 + 5 of p
UnderMask(item, p) ==
    /\ item["type"] = "drawing"
    /\ \E k \in 1..Len(MaskPaths(item)) :
          PathWithin(MaskPaths(item)[k].path, p,
                     MaskPaths(item)[k].strokeWidth + Half(5))

\* C31: in object-erase mode a drawing that the pointer hits at a point
\* within maskStrokeWidth/2 + 5 of one of its mask strokes is skipped: it
\* stays on the page as it is and no DELETE is recorded for it.
C31_MaskedSkipped ==
    [][ (StrokeMoved /\ view.activeTool = "eraser" /\ view.eraserMode = "object")
        => LET p == screenToCanvas(gesture'.pointer, view.scale)
           IN \A k \in 1..Len(ActiveItems(World)) :
                 LET item == ActiveItems(World)[k]
                 IN UnderMask(item, p)
                    => /\ \E j \in 1..Len(ItemsOf(pages', activePageId')) :
                             ItemsOf(pages', activePageId')[j] = item
                       /\ \A j \in 1..Len(undoStack') :
                             undoStack'[j].type = "DELETE"
                               => undoStack'[j].item["id"] # item["id"]
      ]_vars

\* the pointer at (17.5, -10): 12.5 from drawing A's end, which is a hit,
\* and between 10 and 15 from the end of A's mask stroke of width 20
C31_Witness ==
    /\ op = "stroke-move"
    /\ view.eraserMode = "object"
    /\ gesture.pointer = [x |-> 35, y |-> -20]
    /\ PathWithin(DrawingA(TRUE)["paths"],
                  screenToCanvas(gesture.pointer, view.scale),
                  Half(view.eraserSize) + DrawingA(TRUE)["strokeWidth"])
    /\ ~PathWithin(MaskA.path, screenToCanvas(gesture.pointer, view.scale),
                   MaskA.strokeWidth)
    /\ Has(ActiveItems(World), 1)
    /\ Find(ActiveItems(World), 1) = DrawingA(TRUE)
    /\ DeleteCount(1) = 0

\* --------------------------------------- what an erase stroke's end changes
\* the same item but for its maskPaths
SameButMasks(before, after) ==
    /\ DOMAIN before \subseteq DOMAIN after
    /\ DOMAIN after \subseteq DOMAIN before \cup {"maskPaths"}
    /\ \A f \in DOMAIN before : f # "maskPaths" => after[f] = before[f]

\* C32: completing a stroke while the eraser tool is active changes nothing
\* except the maskPaths of the drawings whose bounding box intersects the
\* stroke's bounding box, and those in pixel mode only: no item is added
\* or removed, the items that do not intersect and the items that are not
\* drawings are unchanged, and in object mode no item changes at all.
C32_EraseEndFrame ==
    [][ (Did("stroke-end") /\ view.activeTool = "eraser")
        => LET before == ActiveItems(World)
               after == ItemsOf(pages', activePageId')
           IN /\ activePageId' = activePageId
              /\ DOMAIN pages' = DOMAIN pages
              /\ \A p \in DOMAIN pages : p # activePageId => pages'[p] = pages[p]
              /\ Len(after) = Len(before)
              /\ \A k \in 1..Len(before) :
                    IF /\ view.eraserMode = "pixel"
                       /\ before[k]["type"] = "drawing"
                       /\ Overlap(EraseBox, before[k])
                    THEN SameButMasks(before[k], after[k])
                    ELSE after[k] = before[k]
              /\ view.eraserMode = "object" => pages' = pages
      ]_vars

\* a pixel-erase stroke over drawing B alone has ended: B carries one mask,
\* drawing A and the sticky note are as they were
C32_Witness ==
    /\ op = "stroke-end"
    /\ view.eraserMode = "pixel"
    /\ Len(ActiveItems(World)) = 3
    /\ Len(MaskPaths(Find(ActiveItems(World), 2))) = 1
    /\ SameButMasks(DrawingB, Find(ActiveItems(World), 2))
    /\ Find(ActiveItems(World), 1) = DrawingA(FALSE)
    /\ Find(ActiveItems(World), StickyId)
         = GItem(StickyId, "sticky", Half(100), Half(200), Half(200))

(***************************************************************************)
(* Inserting a row                                                         *)
(***************************************************************************)

\* the table as the store holds it
StoredGrid == Find(ItemsOf(pages, activePageId), GridId)
StoredGridAfter == Find(ItemsOf(pages', activePageId'), GridId)

\* C33: addRow(index) on a table of r rows and c columns, index within the
\* rows, leaves a table of r + 1 rows whose row at position index is c empty
\* strings, whose rows before index are the old ones and whose rows from
\* index on are the old ones one place further down; every other field of
\* the table is unchanged.
C33_AddRowInserts ==
    [][ (Did("add-row") /\ probe'.act.index \in 0..Len(StoredGrid["cells"]))
        => LET before == StoredGrid
               after == StoredGridAfter
               index == probe'.act.index
               r == before["rows"]
               c == before["cols"]
           IN /\ after["rows"] = r + 1
              /\ Len(after["cells"]) = Len(before["cells"]) + 1
              /\ after["cells"][index + 1] = [k \in 1..c |-> 0]
              /\ \A k \in 1..Len(before["cells"]) :
                    after["cells"][IF k <= index THEN k ELSE k + 1]
                        = before["cells"][k]
              /\ DOMAIN after = DOMAIN before
              /\ \A f \in DOMAIN before \ {"rows", "cells"} :
                    after[f] = before[f] ]_vars

\* the default table with a value typed into row 1, then addRow(1): four
\* rows, the new empty row at index 1 and the typed row at index 2
C33_Witness ==
    /\ op = "add-row"
    /\ probe.act.index = 1
    /\ StoredGrid["rows"] = 4
    /\ StoredGrid["cols"] = 3
    /\ StoredGrid["cells"]
         = << <<1, 1, 1>>, <<0, 0, 0>>, <<1, 0, 0>>, <<0, 0, 0>> >>

(***************************************************************************)
(* Window blur during a gesture                                            *)
(***************************************************************************)

\* C34: after a window blur no gesture remains active, so a pointer-move
\* that follows the blur, with no pointer-down in between, changes the
\* geometry of no item.
C34_BlurCancelsGestures ==
    [][ (op = "blur" /\ (DragMoved \/ ResizeMoved)) => pages' = pages ]_vars

(***************************************************************************)
(* Local steps and the global history                                      *)
(***************************************************************************)

\* an undo or redo keystroke that is a local step of the focused region
LocalStep ==
    \/ Did("cell-undo") /\ CellLocalUndo
    \/ Did("cell-redo") /\ CellLocalRedo
    \/ Did("text-undo") /\ TextLocalUndo
    \/ Did("text-redo") /\ TextLocalRedo

\* C35: a local undo or redo step inside a table cell or a text-box body
\* leaves the global undo stack and the global redo stack as they were, and
\* the global undo and redo are not invoked: the keystroke is neither
\* handed to the canvas's handler nor scheduled for it.
C35_LocalStepFrame ==
    [][ LocalStep => /\ undoStack' = undoStack
                     /\ redoStack' = redoStack
                     /\ timers' = timers ]_vars

\* a local undo in a cell while the global undo stack holds an action: the
\* action is still there and nothing is scheduled
C35_Witness ==
    /\ op = "cell-undo"
    /\ focus = "cell"
    /\ cell.index < Len(cell.history) - 1
    /\ cell.dom = cell.history[cell.index + 1]
    /\ Len(undoStack) = 1
    /\ redoStack = <<>>
    /\ timers = <<>>

(***************************************************************************)
(* Delete over a range of cells                                            *)
(***************************************************************************)

\* a range of more than one cell is selected
MultiCellRange ==
    /\ cell.selectionRange # NoRange
    /\ cell.selectionRange.start # cell.selectionRange.end

\* C36: Delete or Backspace while a range of several cells is selected, the
\* table being the canvas's selected item, clears cells only: the table
\* stays on the page and no DELETE of the table is recorded.
C36_RangeDeleteKeepsTable ==
    [][ (Did("range-delete") /\ MultiCellRange /\ selectedItemId = GridId)
        => /\ GridThere'
           /\ \A k \in 1..Len(undoStack') :
                 ~(undoStack'[k].type = "DELETE"
                   /\ undoStack'[k].item["id"] = GridId) ]_vars

(***************************************************************************)
(* Undo of a pixel erase                                                   *)
(***************************************************************************)

\* the action on top of the undo stack is the UPDATE of a pixel erase on a
\* drawing that had no mask before it
TopIsFirstMask ==
    /\ undoStack # <<>>
    /\ Last(undoStack).type = "UPDATE"
    /\ Last(undoStack).prevItem["type"] = "drawing"
    /\ MaskPaths(Last(undoStack).prevItem) = <<>>
    /\ Len(MaskPaths(Last(undoStack).newItem)) = 1

\* C37: undoing the UPDATE of a pixel erase on a drawing that had no
\* maskPaths before the erase leaves the stored drawing with no mask
\* entries.
C37_UndoRemovesMask ==
    [][ (Did("undo") /\ TopIsFirstMask
         /\ Has(ActiveItems(World), Last(undoStack).prevItem["id"]))
        => MaskPaths(Find(ItemsOf(pages', activePageId'),
                          Last(undoStack).prevItem["id"])) = <<>> ]_vars

(***************************************************************************)
(* The local history index                                                 *)
(***************************************************************************)

\* C38: whenever a region's local history is not empty its index refers
\* to an existing entry, after focus, input, local undo and redo, the
\* eviction of the oldest entry and the reset by a paste.
C38_IndexInHistory ==
    /\ CellHistoryOf(cell) # <<>>
          => cell.index \in 0..(Len(CellHistoryOf(cell)) - 1)
    /\ text.history # <<>> => text.index \in 0..(Len(text.history) - 1)

\* a full history lost its oldest entry to an input and the input was then
\* undone: the index is on the last entry but one
C38_Witness ==
    /\ op = "cell-undo"
    /\ Len(cell.history) = HistoryCap
    /\ Head(cell.history) = 2 + MaxX
    /\ cell.index = HistoryCap - 2
    /\ cell.dom = cell.history[HistoryCap - 1]

\* C39: a content change while the index is not on the last entry discards
\* the entries after the index and appends the new content; afterwards the
\* index is on the last entry, so a local redo has nothing to restore.
C39_InputDropsRedo ==
    [][ /\ (Did("cell-input") /\ cell.index < Len(CellHistoryOf(cell)) - 1)
           => /\ cell'.history
                   = Append(SubSeq(cell.history, 1, cell.index + 1), cell'.dom)
              /\ cell'.index = Len(cell'.history) - 1
              /\ \A e \in {k \in WidgetEvents : isHistoryKey(k) /\ isRedo(k)} :
                    cellKeyDown(cell', e).cell = cell'
        /\ (Did("text-input") /\ text.index < Len(text.history) - 1)
           => /\ text'.history
                   = Append(SubSeq(text.history, 1, text.index + 1), text'.dom)
              /\ text'.index = Len(text'.history) - 1
              /\ \A e \in {k \in WidgetEvents : isHistoryKey(k) /\ isRedo(k)} :
                    textKeyDown(text', e).text = text'
      ]_vars

\* a cell whose index was on the first of many entries was typed into: two
\* entries are left, the first one and the typed one
C39_Witness ==
    /\ op = "cell-input"
    /\ ops = 1
    /\ Len(cell.history) = 2
    /\ cell.history[1] = 1 + MaxX
    /\ cell.history[2] = cell.dom
    /\ cell.index = 1

\* C40: Ctrl/Cmd+Z in a cell that shows the entry at its index never grows
\* the history and leaves the cell showing the entry at its index; above
\* index 0 it is one local step that lowers the index by one, at index 0 it
\* takes no local step and is bubbled to the global undo.  From index i
\* there are therefore at most i local steps before the bubbling.
C40_UndoConverges ==
    [][ (Did("cell-undo") /\ ~CellMismatch)
        => /\ cell'.history = cell.history
           /\ ~CellMismatch'
           /\ IF cell.index > 0
              THEN /\ cell'.index = cell.index - 1
                   /\ timers' = timers
                   /\ focus' = focus
              ELSE /\ cell'.index = 0
                   /\ focus' = "none"
                   /\ Len(timers') = Len(timers) + 1 ]_vars

\* a cell typed into once, then two undos: the first a local step to index
\* 0, the second bubbled
C40_Witness ==
    /\ op = "cell-undo"
    /\ ops = 4
    /\ focus = "none"
    /\ Len(timers) = 1
    /\ cell.index = 0
    /\ Len(cell.history) = 2
    /\ cell.dom = cell.history[1]
    /\ undoStack = <<>>
====
